---- MODULE Spec2Model ----
(***************************************************************************)
(* Model of the monthly shift scheduling core, src/solver/solver.py.       *)
(*                                                                         *)
(* The state is the caller's input map `data` (which solve rewrites in     *)
(* place), the result of the CP-SAT call `sol`, the returned output map    *)
(* `out` and the position `pc` of the single solve call.  Every operator   *)
(* below is a transcription of the Python function of the same name.       *)
(*                                                                         *)
(* Conventions.  A Python dict is a TLA+ function on strings, a list is a  *)
(* sequence.  A raised InputValidationError is a result record with        *)
(* ok = FALSE.  The single-character native weekday names of fixed_map     *)
(* are written by their code points ("u65E5" is U+65E5, Sunday).  An       *)
(* entry of fixedOffWeekdays is tagged: [int |-> n] or [str |-> s].        *)
(***************************************************************************)
EXTENDS Integers, Sequences, FiniteSets, TLC

VARIABLES data, sol, out, pc

vars == <<data, sol, out, pc>>

(***************************************************************************)
(* Bounds of the explored input space.                                     *)
(***************************************************************************)
MaxDays == 3
MaxPeople == 2
MaxCells == 3

(***************************************************************************)
(* Generic helpers.                                                        *)
(***************************************************************************)
Range(seq) == {seq[n] : n \in DOMAIN seq}

Max2(a, b) == IF a >= b THEN a ELSE b

RECURSIVE SumSeq(_)
SumSeq(seq) == IF seq = <<>> THEN 0 ELSE Head(seq) + SumSeq(Tail(seq))

RECURSIVE SetSum(_, _)
SetSum(f, S) ==
  IF S = {} THEN 0
  ELSE LET e == CHOOSE e \in S : TRUE IN f[e] + SetSum(f, S \ {e})

MaxOf(S) == CHOOSE m \in S : \A n \in S : n <= m

Get(map, key, default) == IF key \in DOMAIN map THEN map[key] ELSE default

(***************************************************************************)
(* Module constants (solver.py:7-10) and the shift catalog.                *)
(***************************************************************************)
SLOTS == <<"0-7", "7-9", "9-15", "16-18", "18-21", "21-23">>

SUMMARY_SLOTS == <<"7-9", "9-15", "16-18", "18-21", "21-23", "0-7">>

NEED_TEMPLATE_SLOTS == <<"7-9", "9-15", "16-18", "18-24", "0-7">>

DAY_SLOTS == <<"7-9", "9-15", "16-18">>

\* shifts_catalog.json is not part of the sources; its entries are taken from
\* the specification's scenarios (DA 7-15) and a night shift crossing midnight.
SHIFT_CATALOG ==
  << [code |-> "DA", start |-> 7, end |-> 15],
     [code |-> "NA", start |-> 16, end |-> 9] >>

SHIFT_CODES == {SHIFT_CATALOG[n].code : n \in DOMAIN SHIFT_CATALOG}

SHIFT_BY_CODE == [c \in SHIFT_CODES |->
                    CHOOSE e \in Range(SHIFT_CATALOG) : e.code = c]

(***************************************************************************)
(* Slot geometry.                                                          *)
(***************************************************************************)
\* map(int, slot_label.split("-")): the two literal hours of a label
SlotHours(slot_label) ==
  CASE slot_label = "0-7"   -> <<0, 7>>
    [] slot_label = "7-9"   -> <<7, 9>>
    [] slot_label = "9-15"  -> <<9, 15>>
    [] slot_label = "16-18" -> <<16, 18>>
    [] slot_label = "18-21" -> <<18, 21>>
    [] slot_label = "21-23" -> <<21, 23>>

parse_slot(slot_label) ==
  LET a0 == SlotHours(slot_label)[1]
      b0 == SlotHours(slot_label)[2]
      a == IF slot_label = "0-7" THEN a0 + 24 ELSE a0
      b == IF b0 <= a THEN b0 + 24 ELSE b0
  IN <<a, b>>

\* variant: intervals that only touch count as overlapping
overlap_closed(start, end, a, b) == ~(end < a \/ b < start)

overlap(start, end, a, b) == ~(end <= a \/ b <= start)

slot_contributes(shift, slot_label) ==
  LET ab == parse_slot(slot_label)
      shift_start == shift.start
      shift_end == IF shift.end <= shift.start /\ shift.end <= 24
                   THEN shift.end + 24 ELSE shift.end
  IN overlap(shift_start, shift_end, ab[1], ab[2])

RECURSIVE split_weeks_from(_, _, _, _)
split_weeks_from(days, weekday0, start, d) ==
  IF d > days THEN << <<start, days>> >>
  ELSE IF (weekday0 + (d - 1)) % 7 = 0 /\ d # 1
       THEN << <<start, d - 1>> >> \o split_weeks_from(days, weekday0, d, d + 1)
       ELSE split_weeks_from(days, weekday0, start, d + 1)

split_weeks(days, weekday0) == split_weeks_from(days, weekday0, 1, 1)

(***************************************************************************)
(* Input sanitizers.                                                       *)
(***************************************************************************)
\* values is a list of integers here; the result is a set of days
sanitize_day_set(values, day_limit) ==
  {values[n] : n \in {m \in DOMAIN values :
                        values[m] >= 1 /\ values[m] <= day_limit}}

\* a limit that int() rejects, as the inputs carry it
NonNumeric == [str |-> "x"]

normalize_limit(value) ==
  IF ToString(value) = ToString(NonNumeric) THEN 0  \* TypeError, ValueError
  ELSE IF value < 0 THEN 0 ELSE value

\* variant: a count one below the value given
as_non_negative_int_below(value) == IF value <= 0 THEN 0 ELSE value - 1

as_non_negative_int(value) == IF value < 0 THEN 0 ELSE value

get_weight(weights, keys, default) ==
  LET present == {n \in DOMAIN keys : keys[n] \in DOMAIN weights}
  IN IF present = {} THEN default
     ELSE weights[keys[CHOOSE n \in present : \A m \in present : n <= m]]

fixed_map ==
  [name \in {"Sun", "Mon", "Tue", "Wed", "Thu", "Fri", "Sat",
             "u65E5", "u6708", "u706B", "u6C34", "u6728", "u91D1", "u571F"} |->
     CASE name \in {"Sun", "u65E5"} -> 0
       [] name \in {"Mon", "u6708"} -> 1
       [] name \in {"Tue", "u706B"} -> 2
       [] name \in {"Wed", "u6C34"} -> 3
       [] name \in {"Thu", "u6728"} -> 4
       [] name \in {"Fri", "u91D1"} -> 5
       [] name \in {"Sat", "u571F"} -> 6]

\* fixed_map.get(w, w) on a tagged entry
fixed_map_get(w) ==
  IF "str" \in DOMAIN w /\ w.str \in DOMAIN fixed_map
  THEN [int |-> fixed_map[w.str]]
  ELSE w

weekday_of(weekday0, d) == (weekday0 + (d - 1)) % 7

carry_count(carry_map) ==
  Len(carry_map["NA"]) + Len(carry_map["NB"]) + Len(carry_map["NC"])

(***************************************************************************)
(* Validation (the try block of solve).  A result is a record with        *)
(* ok = TRUE, or with ok = FALSE and the raised error; in both cases       *)
(* data is the input map as the function has rewritten it so far.          *)
(***************************************************************************)
InputValidationError(message, code, details) ==
  [code |-> code, message |-> message, details |-> details]

Raise(error, d) == [ok |-> FALSE, error |-> error, data |-> d]

\* a map without one of its keys
Without(map, key) == [k \in DOMAIN map \ {key} |-> map[k]]

\* variant: catalog codes the input omits are not looked for
ensure_shift_definitions_given(d) ==
  LET data_shifts == Get(d, "shifts", <<>>) IN
  IF data_shifts = <<>>
  THEN [ok |-> TRUE, data |-> [shifts |-> SHIFT_CATALOG] @@ Without(d, "shifts")]
  ELSE
    LET provided_codes == {data_shifts[n].code : n \in DOMAIN data_shifts}
        IsUnknown(entry) == entry.code \notin SHIFT_CODES
        IsMismatched(entry) ==
          /\ entry.code \in SHIFT_CODES
          /\ \/ entry.start # SHIFT_BY_CODE[entry.code].start
             \/ entry.end # SHIFT_BY_CODE[entry.code].end
        unknown == SelectSeq(data_shifts, IsUnknown)
        mismatched == SelectSeq(data_shifts, IsMismatched)
        missing == SHIFT_CODES \ provided_codes
    IN IF unknown # <<>> \/ mismatched # <<>>
       THEN Raise(InputValidationError(
                    "Shift definitions in input.json do not match the solver catalog.",
                    "shift_definition_mismatch",
                    [unknown |-> unknown, mismatched |-> mismatched,
                     missing |-> missing]), d)
       ELSE [ok |-> TRUE, data |-> [d EXCEPT !.shifts = SHIFT_CATALOG]]

ensure_shift_definitions(d) ==
  LET data_shifts == Get(d, "shifts", <<>>) IN
  IF data_shifts = <<>>
  THEN [ok |-> TRUE, data |-> [shifts |-> SHIFT_CATALOG] @@ Without(d, "shifts")]
  ELSE
    LET provided_codes == {data_shifts[n].code : n \in DOMAIN data_shifts}
        IsUnknown(entry) == entry.code \notin SHIFT_CODES
        IsMismatched(entry) ==
          /\ entry.code \in SHIFT_CODES
          /\ \/ entry.start # SHIFT_BY_CODE[entry.code].start
             \/ entry.end # SHIFT_BY_CODE[entry.code].end
        unknown == SelectSeq(data_shifts, IsUnknown)
        mismatched == SelectSeq(data_shifts, IsMismatched)
        missing == SHIFT_CODES \ provided_codes
    IN IF unknown # <<>> \/ mismatched # <<>> \/ missing # {}
       THEN Raise(InputValidationError(
                    "Shift definitions in input.json do not match the solver catalog.",
                    "shift_definition_mismatch",
                    [unknown |-> unknown, mismatched |-> mismatched,
                     missing |-> missing]), d)
       ELSE [ok |-> TRUE, data |-> [d EXCEPT !.shifts = SHIFT_CATALOG]]

\* Python's None
None == [none |-> TRUE]

\* isinstance(person, dict): an entry that is not a dict is written [scalar |-> v]
IsDict(person) == "scalar" \notin DOMAIN person

\* data.get("people") when it is a list, else the empty list
people_list(d) == Get(d, "people", <<>>)

ensure_people_shift_codes(d) ==
  LET people == people_list(d)
      invalid_codes(person) == {c \in Range(person.canWork) : c \notin SHIFT_CODES}
      IsInvalid(n) == /\ IsDict(people[n])
                      /\ "canWork" \in DOMAIN people[n]
                      /\ invalid_codes(people[n]) # {}
      invalid_index == SelectSeq([n \in DOMAIN people |-> n], IsInvalid)
  IN IF invalid_index # <<>>
     THEN Raise(InputValidationError(
                  "Some people reference unknown shift codes.",
                  "unknown_shift_code",
                  [invalidPeople |->
                     [m \in DOMAIN invalid_index |->
                        [index |-> invalid_index[m] - 1,
                         staffId |-> Get(people[invalid_index[m]], "id", None),
                         invalidCodes |-> invalid_codes(people[invalid_index[m]])]]]), d)
     ELSE [ok |-> TRUE, data |-> d]

\* the list form of dayTypeByDate
prepare_day_type_list(raw_day_types, days) ==
  IF Len(raw_day_types) # days
  THEN [ok |-> FALSE,
        error |-> InputValidationError(
                    "dayTypeByDate length does not match days.",
                    "invalid_day_type_length",
                    [expected |-> days, actual |-> Len(raw_day_types)])]
  ELSE IF \E n \in DOMAIN raw_day_types : raw_day_types[n] = ""
  THEN LET first == CHOOSE n \in DOMAIN raw_day_types :
                      /\ raw_day_types[n] = ""
                      /\ \A m \in 1..(n - 1) : raw_day_types[m] # ""
       IN [ok |-> FALSE,
           error |-> InputValidationError(
                       "dayTypeByDate must contain non-empty strings.",
                       "invalid_day_type_value",
                       [day |-> first, value |-> raw_day_types[first]])]
  ELSE [ok |-> TRUE, result |-> raw_day_types]

sanitize_need_template(raw_template) ==
  IF DOMAIN raw_template = {}
  THEN [ok |-> FALSE,
        error |-> InputValidationError("needTemplate must be a non-empty object.",
                                       "invalid_need_template", <<>>)]
  ELSE IF "" \in DOMAIN raw_template
  THEN [ok |-> FALSE,
        error |-> InputValidationError("needTemplate keys must be strings.",
                                       "invalid_need_template_key", [key |-> ""])]
  ELSE [ok |-> TRUE,
        sanitized |->
          [day_type \in DOMAIN raw_template |->
             [slot \in Range(NEED_TEMPLATE_SLOTS) |->
                as_non_negative_int(Get(raw_template[day_type], slot, 0))]]]

ensure_previous_month_carry(d) ==
  LET raw == d.previousMonthNightCarry
  IN [key \in {"NA", "NB", "NC"} |-> Get(raw, key, <<>>)]

per_day_summary(slots, carry_today, day_index) ==
  [date |-> day_index,
   slots |-> [slot \in Range(SUMMARY_SLOTS) |->
                CASE slot \in Range(DAY_SLOTS) -> slots[slot]
                  [] slot \in {"18-21", "21-23"} -> slots["18-24"]
                  [] slot = "0-7" -> Max2(0, slots["0-7"] - carry_today)],
   total |-> slots["7-9"] + slots["9-15"] + slots["16-18"] + slots["18-24"]
               + slots["18-24"] + Max2(0, slots["0-7"] - carry_today),
   carryApplied |-> (carry_today # 0 /\ slots["0-7"] # 0)]

demand_diagnostics(days, weekday0, day_types, per_day) ==
  [days |-> days,
   weekdayOfDay1 |-> weekday0,
   dayTypeSample |-> SubSeq(day_types, 1, IF Len(day_types) < 7 THEN Len(day_types) ELSE 7),
   perDayTotals |-> per_day,
   totalNeed |-> SumSeq([n \in 1..Len(per_day) |-> per_day[n].total])]

\* variant: a total need of zero is let through
prepare_demand_result_unchecked(d, day_types, need_template, diagnostics) ==
  [ok |-> TRUE,
   data |-> d,
   prepared |-> [days |-> d.days,
                 weekday0 |-> d.weekdayOfDay1,
                 day_types |-> day_types,
                 need_template |-> need_template,
                 diagnostics |-> diagnostics @@ [warnings |-> <<>>]]]

\* prepare_demand from the total-need check on; d is the input map with the
\* carry record already rewritten
prepare_demand_result(d, day_types, need_template, diagnostics) ==
  IF diagnostics.totalNeed = 0
  THEN Raise(InputValidationError(
               "Total demand is zero. All staff will remain off-duty.",
               "total_need_zero", [demandDiagnostics |-> diagnostics]), d)
  ELSE [ok |-> TRUE,
        data |-> d,
        prepared |-> [days |-> d.days,
                      weekday0 |-> d.weekdayOfDay1,
                      day_types |-> day_types,
                      need_template |-> need_template,
                      diagnostics |-> diagnostics @@ [warnings |-> <<>>]]]

\* prepare_demand from the carry sanitizer on
prepare_demand_totals(d, day_types, need_template, carry) ==
  prepare_demand_result(
    d, day_types, need_template,
    demand_diagnostics(
      d.days, d.weekdayOfDay1, day_types,
      [n \in 1..Len(day_types) |->
         per_day_summary(need_template[day_types[n]],
                         IF n = 1 THEN carry ELSE 0, n)]))

\* prepare_demand from the unknown-day-type check on
prepare_demand_known(d, day_types, need_template) ==
  IF \E n \in DOMAIN day_types : day_types[n] \notin DOMAIN need_template
  THEN Raise(InputValidationError(
               "dayTypeByDate references unknown day type.",
               "unknown_day_type",
               [day |-> CHOOSE n \in DOMAIN day_types :
                          /\ day_types[n] \notin DOMAIN need_template
                          /\ \A m \in 1..(n - 1) : day_types[m] \in DOMAIN need_template]),
             d)
  ELSE prepare_demand_totals(
         [d EXCEPT !.previousMonthNightCarry = ensure_previous_month_carry(d)],
         day_types, need_template,
         IF d.days >= 1 THEN carry_count(ensure_previous_month_carry(d)) ELSE 0)

\* prepare_demand from the results of the two sanitizers on
prepare_demand_sanitized(d, dt, nt) ==
  IF ~dt.ok THEN Raise(dt.error, d)
  ELSE IF ~nt.ok THEN Raise(nt.error, d)
  ELSE prepare_demand_known(d, dt.result, nt.sanitized)

prepare_demand(d) ==
  IF ~(d.days > 0)
  THEN Raise(InputValidationError("days must be a positive integer.",
                                  "invalid_days", [days |-> d.days]), d)
  ELSE IF ~(0 <= d.weekdayOfDay1 /\ d.weekdayOfDay1 <= 6)
  THEN Raise(InputValidationError("weekdayOfDay1 must be an integer between 0 and 6.",
                                  "invalid_weekday_of_day1",
                                  [weekdayOfDay1 |-> d.weekdayOfDay1]), d)
  ELSE prepare_demand_sanitized(d,
         prepare_day_type_list(d.dayTypeByDate, d.days),
         sanitize_need_template(d.needTemplate))

\* the rest of the try block once the shift definitions are accepted
validate_people(r1) ==
  IF ~r1.ok THEN r1 ELSE prepare_demand(r1.data)

validate_shifts(r0) ==
  IF ~r0.ok THEN r0 ELSE validate_people(ensure_people_shift_codes(r0.data))

\* the try block of solve: the three validators in sequence
validate(d) == validate_shifts(ensure_shift_definitions(d))

(***************************************************************************)
(* Availability analysis.                                                  *)
(***************************************************************************)
\* int(value) of a decimal string; other strings raise ValueError
IntOfStr ==
  [str \in {"0", "1", "2", "3", "4", "5", "6", "7", "8", "9"} |->
     CASE str = "0" -> 0 [] str = "1" -> 1 [] str = "2" -> 2 [] str = "3" -> 3
       [] str = "4" -> 4 [] str = "5" -> 5 [] str = "6" -> 6 [] str = "7" -> 7
       [] str = "8" -> 8 [] str = "9" -> 9]

\* str(day), the key of the availability map in the output
StrOfInt(n) ==
  CASE n = 0 -> "0" [] n = 1 -> "1" [] n = 2 -> "2" [] n = 3 -> "3"
    [] n = 4 -> "4" [] n = 5 -> "5" [] n = 6 -> "6" [] n = 7 -> "7"
    [] n = 8 -> "8" [] n = 9 -> "9"

\* off_indices of compute_slot_availability: names mapped, then int() of all
\* entries, falling back to the integer entries when a string is not a number
availability_off_indices(person) ==
  LET offs == Get(person, "fixedOffWeekdays", <<>>)
      mapped == {fixed_map_get(offs[n]) : n \in DOMAIN offs}
      all_convert == \A v \in mapped : "str" \in DOMAIN v => v.str \in DOMAIN IntOfStr
  IN IF all_convert
     THEN {IF "int" \in DOMAIN v THEN v.int ELSE IntOfStr[v.str] : v \in mapped}
     ELSE {v.int : v \in {w \in mapped : "int" \in DOMAIN w}}

\* the body of the person loop: whether the person counts for (d, slot)
availability_counts_person(d, person, day, slot) ==
  LET can_codes == {c \in Range(Get(person, "canWork", <<>>)) : c \in SHIFT_CODES}
      shift_entries == {e \in Range(d.shifts) : e.code \in SHIFT_CODES}
      wd == weekday_of(d.weekdayOfDay1, day)
      unavailable_days == sanitize_day_set(Get(person, "unavailableDates", <<>>), d.days)
  IN /\ IsDict(person)
     /\ can_codes # {}
     /\ wd \notin availability_off_indices(person)
     /\ day \notin unavailable_days
     /\ \E shift \in shift_entries :
          shift.code \in can_codes /\ slot_contributes(shift, slot)

compute_slot_availability(d) ==
  IF ~(d.days > 0) THEN <<>>
  ELSE [day \in 1..d.days |->
          [slot \in Range(SUMMARY_SLOTS) |->
             Cardinality({n \in DOMAIN people_list(d) :
                            availability_counts_person(d, people_list(d)[n], day, slot)})]]

estimate_slot_max_possible(d) == compute_slot_availability(d)

(***************************************************************************)
(* The error envelope.                                                     *)
(***************************************************************************)
EmptySummary ==
  [shortage |-> <<>>,
   overstaff |-> <<>>,
   totals |-> [shortage |-> 0, overstaff |-> 0, wishOffViolations |-> 0,
               requestedOffViolations |-> 0, violatedPreferences |-> 0],
   diagnostics |-> <<>>]

build_validation_error_output(d, error) ==
  LET HasId(person) == IsDict(person) /\ "id" \in DOMAIN person
      salvaged == SelectSeq(people_list(d), HasId)
      ids == [n \in DOMAIN salvaged |-> salvaged[n].id]
      details == error.details
      has_demand == "demandDiagnostics" \in DOMAIN details
      demand == details.demandDiagnostics
      warnings == Get(demand, "warnings", <<>>)
                    \o (IF error.code = "total_need_zero"
                        THEN <<"total demand is zero">> ELSE <<>>)
      summary == IF has_demand
                 THEN [EmptySummary EXCEPT
                         !.diagnostics =
                           [demand |-> [warnings |-> warnings] @@ demand]]
                 ELSE EmptySummary
      output == [assignments |-> <<>>,
                 peopleOrder |-> ids,
                 matrix |-> <<>>,
                 summary |-> summary,
                 error |-> [code |-> error.code, message |-> error.message,
                            details |-> details]]
  IN IF "solverDiagnostics" \in DOMAIN details
     THEN output @@ [diagnostics |-> details.solverDiagnostics]
     ELSE output

(***************************************************************************)
(* The CP-SAT model built by solve.  d is the input map after validation.  *)
(* An assignment x maps (day, person index) to the set of shift indices k  *)
(* with x[d,i,k] = 1; indices are 1-based.                                 *)
(***************************************************************************)
DaysOf(d) == 1..d.days

StaffIndex(d) == 1..Len(d.people)

ShiftIndex(d) == 1..Len(d.shifts)

\* the Boolean decision variables x[d,i,k], before any constraint
XSpace(d) == [DaysOf(d) \X StaffIndex(d) -> SUBSET ShiftIndex(d)]

\* value of work[d,i] == sum(x[d,i,k] for k in K)
work(x, day, i) == Cardinality(x[day, i])

\* work days of person i among a set of days
work_count(x, i, day_set) ==
  SetSum([day \in day_set |-> work(x, day, i)], day_set)

code_index(d) ==
  [code \in {d.shifts[k].code : k \in ShiftIndex(d)} |->
     MaxOf({k \in ShiftIndex(d) : d.shifts[k].code = code})]

\* variant: the sum of a day is bounded by the number of shifts, not by 1
one_shift_per_day_any(d, x) ==
  \A day \in DaysOf(d), i \in StaffIndex(d) :
    /\ Cardinality(x[day, i]) <= Len(d.shifts)
    /\ work(x, day, i) \in 0..Len(d.shifts)

\* 1) one shift per day, and work[d,i] a Boolean equal to the sum
one_shift_per_day(d, x) ==
  \A day \in DaysOf(d), i \in StaffIndex(d) :
    /\ Cardinality(x[day, i]) <= 1
    /\ work(x, day, i) \in {0, 1}

\* variant: the canWork set of the first person is used for everybody
can_work_only_first(d, x) ==
  \A i \in StaffIndex(d), day \in DaysOf(d), k \in ShiftIndex(d) :
    d.shifts[k].code \notin Range(d.people[1].canWork) => k \notin x[day, i]

\* 2) capability
can_work_only(d, x) ==
  \A i \in StaffIndex(d), day \in DaysOf(d), k \in ShiftIndex(d) :
    d.shifts[k].code \notin Range(d.people[i].canWork) => k \notin x[day, i]

fixed_off_cache(d, i) ==
  LET offs == Get(d.people[i], "fixedOffWeekdays", <<>>)
  IN {fixed_map_get(offs[n]) : n \in DOMAIN offs}

unavailable_cache(d, i) ==
  sanitize_day_set(Get(d.people[i], "unavailableDates", <<>>), d.days)

\* variant: the weekday of a day computed without the "- 1"
fixed_off_shifted(d, x) ==
  \A day \in DaysOf(d), i \in StaffIndex(d) :
    [int |-> weekday_of(d.weekdayOfDay1, day + 1)] \in fixed_off_cache(d, i)
      => x[day, i] = {}

\* 3) fixed weekly days off
fixed_off(d, x) ==
  \A day \in DaysOf(d), i \in StaffIndex(d) :
    [int |-> weekday_of(d.weekdayOfDay1, day)] \in fixed_off_cache(d, i)
      => x[day, i] = {}

week_days(d, week) == {day \in week[1]..week[2] : 1 <= day /\ day <= d.days}

\* variant: the whole month taken as one week
weekly_limits_one_week(d, x) ==
  \A i \in StaffIndex(d) :
    LET wmax == normalize_limit(Get(d.people[i], "weeklyMax", 0))
        wmin == normalize_limit(Get(d.people[i], "weeklyMin", 0))
        worked == work_count(x, i, DaysOf(d))
    IN /\ wmax > 0 => worked <= wmax
       /\ wmin > 0 => worked >= wmin

\* 3b) weekly limits
weekly_limits(d, x) ==
  LET weeks == split_weeks(d.days, d.weekdayOfDay1) IN
  \A i \in StaffIndex(d), w \in DOMAIN weeks :
    LET wmax == normalize_limit(Get(d.people[i], "weeklyMax", 0))
        wmin == normalize_limit(Get(d.people[i], "weeklyMin", 0))
        worked == work_count(x, i, week_days(d, weeks[w]))
    IN /\ wmax > 0 => worked <= wmax
       /\ wmin > 0 => worked >= wmin

\* 3c) monthly limits
monthly_limits(d, x) ==
  \A i \in StaffIndex(d) :
    LET mmax == normalize_limit(Get(d.people[i], "monthlyMax", 0))
        mmin == normalize_limit(Get(d.people[i], "monthlyMin", 0))
        worked == work_count(x, i, DaysOf(d))
    IN /\ mmax > 0 => worked <= mmax
       /\ mmin > 0 => worked >= mmin

\* variant: the days of the loop taken 0-based
unavailable_dates_shifted(d, x) ==
  \A i \in StaffIndex(d), day \in DaysOf(d) :
    (day - 1) \in unavailable_cache(d, i) => x[day, i] = {}

\* 3d) unavailable dates
unavailable_dates(d, x) ==
  \A i \in StaffIndex(d), day \in DaysOf(d) :
    day \in unavailable_cache(d, i) => x[day, i] = {}

\* variant: range(1, r_int), which leaves out the last day of rest
night_rest_short(d, x) ==
  LET rest_map == Get(d.rules, "nightRest", <<>>) IN
  \A day \in DaysOf(d), i \in StaffIndex(d), code \in DOMAIN rest_map :
    (code \in DOMAIN code_index(d) /\ rest_map[code] > 0) =>
      \A t \in 1..(rest_map[code] - 1) :
        (day + t \in DaysOf(d) /\ code_index(d)[code] \in x[day, i])
          => work(x, day + t, i) = 0

\* 4) rest after a night shift
night_rest(d, x) ==
  LET rest_map == Get(d.rules, "nightRest", <<>>) IN
  \A day \in DaysOf(d), i \in StaffIndex(d), code \in DOMAIN rest_map :
    (code \in DOMAIN code_index(d) /\ rest_map[code] > 0) =>
      \A t \in 1..rest_map[code] :
        (day + t \in DaysOf(d) /\ code_index(d)[code] \in x[day, i])
          => work(x, day + t, i) = 0

\* variant: a window of L+1 days may be worked in full
consec_max_loose(d, x) ==
  \A i \in StaffIndex(d) :
    LET L == normalize_limit(Get(d.people[i], "consecMax", 5)) IN
    L > 0 =>
      \A start \in DaysOf(d) :
        LET window == {t \in start..(start + L) : t \in DaysOf(d)} IN
        Cardinality(window) = L + 1 => work_count(x, i, window) <= L + 1

\* variant: without a consecMax key there is no cap
consec_max_undefaulted(d, x) ==
  \A i \in StaffIndex(d) :
    LET L == normalize_limit(Get(d.people[i], "consecMax", 0)) IN
    L > 0 =>
      \A start \in DaysOf(d) :
        LET window == {t \in start..(start + L) : t \in DaysOf(d)} IN
        Cardinality(window) = L + 1 => work_count(x, i, window) <= L

\* 5) cap on consecutive work days
consec_max(d, x) ==
  \A i \in StaffIndex(d) :
    LET L == normalize_limit(Get(d.people[i], "consecMax", 5)) IN
    L > 0 =>
      \A start \in DaysOf(d) :
        LET window == {t \in start..(start + L) : t \in DaysOf(d)} IN
        Cardinality(window) = L + 1 => work_count(x, i, window) <= L

\* 6) no early shift the day after DA or DB
no_early_after_day_ab(d, x) ==
  LET ci == code_index(d) IN
  (Get(d.rules, "noEarlyAfterDayAB", FALSE) /\ {"DA", "DB", "EA"} \subseteq DOMAIN ci) =>
    \A day \in DaysOf(d), i \in StaffIndex(d) :
      day + 1 \in DaysOf(d) =>
        Cardinality(x[day, i] \cap {ci["DA"]}) + Cardinality(x[day, i] \cap {ci["DB"]})
          + Cardinality(x[day + 1, i] \cap {ci["EA"]}) <= 1

\* value of s[d,slot]: the x[d,i,k] of the shifts that contribute to the slot
s_value(d, x, day, slot) ==
  LET covering == {k \in ShiftIndex(d) : slot_contributes(d.shifts[k], slot)}
      n == [i \in StaffIndex(d) |-> Cardinality(x[day, i] \cap covering)]
  IN SetSum(n, StaffIndex(d))

bigN(d) == Len(d.people)

\* s[d,slot] is an IntVar of domain [0, bigN]
slot_supply(d, x) ==
  \A day \in DaysOf(d), n \in DOMAIN SLOTS :
    s_value(d, x, day, SLOTS[n]) \in 0..bigN(d)

\* some value of a slack variable lack in [0, bigN] gives s + lack >= need
lack_exists(d, supply, need) == \E lack \in 0..bigN(d) : supply + lack >= need

day_needs(d, day) == d.needTemplate[d.dayTypeByDate[day]]

effective_need(d, day) ==
  LET need_midnight == Get(day_needs(d, day), "0-7", 2)
      carry == IF day = 1 THEN carry_count(d.previousMonthNightCarry) ELSE 0
  IN Max2(0, need_midnight - carry)

\* variant: the carry does not lower the upper bound of "0-7" on day 1
night_demand_uncarried(d, x) ==
  \A day \in DaysOf(d) :
    LET need_evening == Get(day_needs(d, day), "18-24", 2)
        need_midnight == Get(day_needs(d, day), "0-7", 2)
    IN /\ lack_exists(d, s_value(d, x, day, "21-23"), need_evening)
       /\ s_value(d, x, day, "21-23") <= need_evening
       /\ lack_exists(d, s_value(d, x, day, "0-7"), effective_need(d, day))
       /\ IF day = 1
          THEN s_value(d, x, day, "0-7") <= need_midnight
          ELSE s_value(d, x, day, "0-7") <= need_midnight
       /\ lack_exists(d, s_value(d, x, day, "18-21"), need_evening)
       /\ s_value(d, x, day, "18-21") <= 3

\* 7) night demand: slack for the shortage, hard upper bounds
night_demand(d, x) ==
  \A day \in DaysOf(d) :
    LET need_evening == Get(day_needs(d, day), "18-24", 2)
        need_midnight == Get(day_needs(d, day), "0-7", 2)
    IN /\ lack_exists(d, s_value(d, x, day, "21-23"), need_evening)
       /\ s_value(d, x, day, "21-23") <= need_evening
       /\ lack_exists(d, s_value(d, x, day, "0-7"), effective_need(d, day))
       /\ IF day = 1
          THEN s_value(d, x, day, "0-7") <= effective_need(d, day)
          ELSE s_value(d, x, day, "0-7") <= need_midnight
       /\ lack_exists(d, s_value(d, x, day, "18-21"), need_evening)
       /\ s_value(d, x, day, "18-21") <= 3

\* 8) day demand: slack for the shortage (the excess variable always exists)
day_demand(d, x) ==
  \A day \in DaysOf(d), n \in DOMAIN DAY_SLOTS :
    lack_exists(d, s_value(d, x, day, DAY_SLOTS[n]), day_needs(d, day)[DAY_SLOTS[n]])

hard_constraints(d, x) ==
  /\ one_shift_per_day(d, x)
  /\ can_work_only(d, x)
  /\ fixed_off(d, x)
  /\ weekly_limits(d, x)
  /\ monthly_limits(d, x)
  /\ unavailable_dates(d, x)
  /\ night_rest(d, x)
  /\ consec_max(d, x)
  /\ no_early_after_day_ab(d, x)
  /\ slot_supply(d, x)
  /\ night_demand(d, x)
  /\ day_demand(d, x)

\* the assignments the solver may report as a solution
solutions(d) == {x \in XSpace(d) : hard_constraints(d, x)}

(***************************************************************************)
(* Wish-offs and the objective.                                            *)
(***************************************************************************)
RECURSIVE SortedSeq(_)
SortedSeq(S) ==
  IF S = {} THEN <<>>
  ELSE LET m == CHOOSE m \in S : \A n \in S : m <= n
       IN <<m>> \o SortedSeq(S \ {m})

\* data["wishOffs"] as solve rewrites it: sorted, sanitized day lists
sanitized_wish_offs(d) ==
  LET raw_wish_offs == Get(d, "wishOffs", <<>>)
  IN [staff_id \in DOMAIN raw_wish_offs |->
        SortedSeq(sanitize_day_set(raw_wish_offs[staff_id], d.days))]

\* variant: only the listed wishOffs, without the requestedOffDates
requested_off_union_listed(d, wish_offs) ==
  [pid \in DOMAIN wish_offs |-> sanitize_day_set(wish_offs[pid], d.days)]

\* wishOffs[id] united with the requestedOffDates of the people named id
requested_off_union(d, wish_offs) ==
  LET extra(n) == sanitize_day_set(Get(d.people[n], "requestedOffDates", <<>>), d.days)
      with_extra == {d.people[n].id : n \in {m \in DOMAIN d.people : extra(m) # {}}}
  IN [pid \in DOMAIN wish_offs \cup with_extra |->
        (IF pid \in DOMAIN wish_offs
         THEN sanitize_day_set(wish_offs[pid], d.days) ELSE {})
        \cup UNION {extra(n) : n \in {m \in DOMAIN d.people : d.people[m].id = pid}}]

\* variant: the requestedOffDates of the people are left out
combined_wish_off_sets_listed(d) ==
  [pid \in DOMAIN sanitized_wish_offs(d) |->
     sanitize_day_set(sanitized_wish_offs(d)[pid], d.days)]

combined_wish_off_sets(d) == requested_off_union(d, sanitized_wish_offs(d))

shortage_weight(d) ==
  get_weight(Get(d, "weights", <<>>), <<"w_shortage", "W_shortage">>, 1000)

overstaff_weight(d) ==
  get_weight(Get(d, "weights", <<>>),
             <<"w_overstaff_gt_need_plus1", "W_overstaff_gt_need_plus1">>, 5)

wish_off_weight_default(d) ==
  get_weight(Get(d, "weights", <<>>),
             <<"w_wish_off_violation", "W_requested_off_violation">>, 20)

\* least value of weight * slack over the slack values the constraints allow
slack_penalty(d, weight, least_slack) ==
  IF weight = 0 THEN 0
  ELSE IF weight > 0 THEN weight * least_slack
  ELSE weight * bigN(d)

\* variant: requested days off carry no penalty
objective_unwished(d, x) ==
  LET combined == combined_wish_off_sets(d)
      night(day) ==
        LET need_evening == Get(day_needs(d, day), "18-24", 2) IN
        slack_penalty(d, shortage_weight(d),
                      Max2(0, need_evening - s_value(d, x, day, "21-23")))
        + slack_penalty(d, shortage_weight(d),
                        Max2(0, effective_need(d, day) - s_value(d, x, day, "0-7")))
        + slack_penalty(d, shortage_weight(d),
                        Max2(0, need_evening - s_value(d, x, day, "18-21")))
      daytime(day, slot) ==
        LET need == day_needs(d, day)[slot] IN
        slack_penalty(d, shortage_weight(d), Max2(0, need - s_value(d, x, day, slot)))
        + slack_penalty(d, overstaff_weight(d),
                        Max2(0, s_value(d, x, day, slot) - (need + 1)))
      wish(i) ==
        LET pid == d.people[i].id
            requested == Get(combined, pid, {})
            weight == Get(d.people[i], "requestedOffWeight", wish_off_weight_default(d))
        IN IF requested = {} \/ weight <= 0 THEN 0
           ELSE 0 * work_count(x, i, {day \in requested : 1 <= day /\ day <= d.days})
  IN SetSum([day \in DaysOf(d) |->
               night(day) + daytime(day, "7-9") + daytime(day, "9-15")
                 + daytime(day, "16-18")], DaysOf(d))
     + SetSum([i \in StaffIndex(d) |-> wish(i)], StaffIndex(d))

\* the objective at x with every slack variable at its best value
objective(d, x) ==
  LET combined == combined_wish_off_sets(d)
      night(day) ==
        LET need_evening == Get(day_needs(d, day), "18-24", 2) IN
        slack_penalty(d, shortage_weight(d),
                      Max2(0, need_evening - s_value(d, x, day, "21-23")))
        + slack_penalty(d, shortage_weight(d),
                        Max2(0, effective_need(d, day) - s_value(d, x, day, "0-7")))
        + slack_penalty(d, shortage_weight(d),
                        Max2(0, need_evening - s_value(d, x, day, "18-21")))
      daytime(day, slot) ==
        LET need == day_needs(d, day)[slot] IN
        slack_penalty(d, shortage_weight(d), Max2(0, need - s_value(d, x, day, slot)))
        + slack_penalty(d, overstaff_weight(d),
                        Max2(0, s_value(d, x, day, slot) - (need + 1)))
      wish(i) ==
        LET pid == d.people[i].id
            requested == Get(combined, pid, {})
            weight == Get(d.people[i], "requestedOffWeight", wish_off_weight_default(d))
        IN IF requested = {} \/ weight <= 0 THEN 0
           ELSE weight * work_count(x, i, {day \in requested : 1 <= day /\ day <= d.days})
  IN SetSum([day \in DaysOf(d) |->
               night(day) + daytime(day, "7-9") + daytime(day, "9-15")
                 + daytime(day, "16-18")], DaysOf(d))
     + SetSum([i \in StaffIndex(d) |-> wish(i)], StaffIndex(d))

\* the least objective value over a set of assignments
best_objective(d, sols) ==
  LET values == {objective(d, x) : x \in sols}
  IN CHOOSE v \in values : \A w \in values : v <= w

(***************************************************************************)
(* Summary of a solved schedule.                                           *)
(***************************************************************************)
\* the (day, slot) pairs in the order the summary loops visit them
DaySlotSeq(days) ==
  [n \in 1..(days * Len(SUMMARY_SLOTS)) |->
     [date |-> ((n - 1) \div Len(SUMMARY_SLOTS)) + 1,
      slot |-> SUMMARY_SLOTS[((n - 1) % Len(SUMMARY_SLOTS)) + 1]]]

\* variant: assignments equal to the need are flagged too
should_flag_at_need(total_need, total_assigned, shortage_total) ==
  IF total_need <= 0 THEN FALSE
  ELSE total_assigned <= total_need /\ shortage_total = 0

should_flag_summary_inconsistency(total_need, total_assigned, shortage_total) ==
  IF total_need <= 0 THEN FALSE
  ELSE total_assigned < total_need /\ shortage_total = 0

\* lack of compute_summary for (day, slot)
summary_lack(d, s_values, day, slot) ==
  LET carry_today == IF day = 1 /\ d.days >= 1
                     THEN carry_count(d.previousMonthNightCarry) ELSE 0
      actual == Get(s_values, <<day, slot>>, 0)
      needs == d.needTemplate[d.dayTypeByDate[day]]
  IN CASE slot \in Range(DAY_SLOTS) -> Max2(0, needs[slot] - actual)
       [] slot = "18-21" -> Max2(0, 2 - actual)
       [] slot = "21-23" -> Max2(0, 2 - actual)
       [] slot = "0-7" -> Max2(0, 2 - (actual + carry_today))

\* excess of compute_summary for (day, slot)
summary_excess(d, s_values, day, slot) ==
  LET carry_today == IF day = 1 /\ d.days >= 1
                     THEN carry_count(d.previousMonthNightCarry) ELSE 0
      actual == Get(s_values, <<day, slot>>, 0)
      needs == d.needTemplate[d.dayTypeByDate[day]]
  IN CASE slot \in Range(DAY_SLOTS) -> Max2(0, actual - (needs[slot] + 1))
       [] slot = "18-21" -> Max2(0, actual - 3)
       [] slot = "21-23" -> Max2(0, actual - 2)
       [] slot = "0-7" -> Max2(0, (actual + carry_today) - 2)

compute_summary(d, assignments, s_values) ==
  LET requested_off_map == requested_off_union(d, Get(d, "wishOffs", <<>>))
      HasLack(e) == summary_lack(d, s_values, e.date, e.slot) > 0
      HasExcess(e) == summary_excess(d, s_values, e.date, e.slot) > 0
      short == SelectSeq(DaySlotSeq(d.days), HasLack)
      over == SelectSeq(DaySlotSeq(d.days), HasExcess)
      shortage == [n \in DOMAIN short |->
                     [date |-> short[n].date, slot |-> short[n].slot,
                      lack |-> summary_lack(d, s_values, short[n].date, short[n].slot)]]
      overstaff == [n \in DOMAIN over |->
                      [date |-> over[n].date, slot |-> over[n].slot,
                       excess |-> summary_excess(d, s_values, over[n].date, over[n].slot)]]
      violations == Cardinality({n \in DOMAIN assignments :
                       assignments[n].date
                         \in Get(requested_off_map, assignments[n].staffId, {})})
  IN [shortage |-> shortage,
      overstaff |-> overstaff,
      totals |-> [shortage |-> SumSeq([n \in DOMAIN shortage |-> shortage[n].lack]),
                  overstaff |-> SumSeq([n \in DOMAIN overstaff |-> overstaff[n].excess]),
                  wishOffViolations |-> violations,
                  requestedOffViolations |-> violations,
                  violatedPreferences |-> violations],
      diagnostics |-> <<>>]

(***************************************************************************)
(* solve, up to the call of the CP-SAT solver.  The result either carries  *)
(* the output of an early return (returned = TRUE) or what the rest of     *)
(* solve reads: the rewritten input map, the prepared demand and the       *)
(* diagnostics collected so far.                                           *)
(***************************************************************************)
availability_warnings_of(d, availability_map, per_day_totals) ==
  LET need(e) == Get(per_day_totals[e.date].slots, e.slot, 0)
      Warn(e) == /\ need(e) > 0
                 /\ Get(Get(availability_map, e.date, <<>>), e.slot, 0) = 0
      sel == SelectSeq(DaySlotSeq(d.days), Warn)
  IN [n \in DOMAIN sel |->
        [date |-> sel[n].date, slot |-> sel[n].slot,
         need |-> need(sel[n]), available |-> 0]]

availability_output_of(availability_map) ==
  [key \in {StrOfInt(day) : day \in DOMAIN availability_map} |->
     availability_map[CHOOSE day \in DOMAIN availability_map : StrOfInt(day) = key]]

\* variant: a slot counts as available already at 0 people
all_slots_zero_never(days_count, availability_map) ==
  \A day \in 1..days_count : \A n \in DOMAIN SUMMARY_SLOTS :
    ~(Get(Get(availability_map, day, <<>>), SUMMARY_SLOTS[n], 0) >= 0)

all_slots_zero(days_count, availability_map) ==
  \A day \in 1..days_count : \A n \in DOMAIN SUMMARY_SLOTS :
    ~(Get(Get(availability_map, day, <<>>), SUMMARY_SLOTS[n], 0) > 0)

\* solve from the variable count on; d is the input map with wishOffs rewritten
\* an uncaught exception leaves solve: no output, data as rewritten so far
Uncaught(d) == [returned |-> FALSE, raised |-> TRUE, data |-> d]

solve_setup_model(d, prepared, flags, warnings, availability_warnings, diagnostics) ==
  IF \E n \in DOMAIN d.people : ~IsDict(d.people[n])
  THEN Uncaught(d)  \* person.get("id") on an entry that is no dict
  ELSE IF diagnostics.var_counts.x = 0
  THEN [returned |-> TRUE, raised |-> FALSE, data |-> d,
        out |-> build_validation_error_output(d,
                  InputValidationError(
                    "No assignment variables were created. Staff availability is zero.",
                    "no_assignment_variables",
                    [varCounts |-> diagnostics.var_counts,
                     solverDiagnostics |-> diagnostics,
                     demandDiagnostics |-> prepared.diagnostics]))]
  ELSE IF \E n \in DOMAIN d.people : "canWork" \notin DOMAIN d.people[n]
  THEN Uncaught(d)  \* p["canWork"]
  ELSE [returned |-> FALSE, raised |-> FALSE, data |-> d, prepared |-> prepared,
        total_need |-> prepared.diagnostics.totalNeed,
        diagnostics_flags |-> flags,
        solver_warnings |-> warnings,
        availability_warnings |-> availability_warnings,
        solver_diagnostics |-> diagnostics]

\* solve from the availability check on
solve_setup_checked(d, prepared, availability, availability_warnings) ==
  IF all_slots_zero(prepared.days, availability) /\ prepared.diagnostics.totalNeed > 0
  THEN [returned |-> TRUE, raised |-> FALSE, data |-> d,
        out |-> build_validation_error_output(d,
                  InputValidationError(
                    "No staff can be assigned to any slot despite positive demand.",
                    "no_availability",
                    [solverDiagnostics |->
                       [availability |-> availability_output_of(availability),
                        availabilityWarnings |-> availability_warnings],
                     demandDiagnostics |-> prepared.diagnostics]))]
  ELSE solve_setup_model(
         [wishOffs |-> sanitized_wish_offs(d)] @@ d,
         prepared,
         IF availability_warnings # <<>> THEN [availability_warning |-> TRUE] ELSE <<>>,
         IF availability_warnings # <<>>
         THEN <<"a slot with demand has no assignable staff">> ELSE <<>>,
         availability_warnings,
         [availability |-> availability_output_of(availability),
          var_counts |-> [x |-> prepared.days * Len(d.people) * Len(d.shifts)]]
         @@ (IF availability_warnings # <<>>
             THEN [flags |-> [availability_warning |-> TRUE],
                   warnings |-> <<"a slot with demand has no assignable staff">>,
                   availabilityWarnings |-> availability_warnings]
             ELSE <<>>))

\* solve from the availability analysis on; d is the normalized input map
solve_setup_available(d, prepared, availability) ==
  solve_setup_checked(d, prepared, availability,
    availability_warnings_of(d, availability, prepared.diagnostics.perDayTotals))

\* solve after the try block; v is the result of the validators
solve_setup_validated(v) ==
  IF ~v.ok
  THEN [returned |-> TRUE, raised |-> FALSE, data |-> v.data,
        out |-> build_validation_error_output(v.data, v.error)]
  ELSE IF "people" \notin DOMAIN v.data
  THEN Uncaught([v.data EXCEPT !.days = v.prepared.days,
                               !.weekdayOfDay1 = v.prepared.weekday0,
                               !.dayTypeByDate = v.prepared.day_types,
                               !.needTemplate = v.prepared.need_template])  \* data["people"]
  ELSE solve_setup_available(
         [v.data EXCEPT !.days = v.prepared.days,
                        !.weekdayOfDay1 = v.prepared.weekday0,
                        !.dayTypeByDate = v.prepared.day_types,
                        !.needTemplate = v.prepared.need_template],
         v.prepared,
         compute_slot_availability(
           [v.data EXCEPT !.days = v.prepared.days,
                          !.weekdayOfDay1 = v.prepared.weekday0,
                          !.dayTypeByDate = v.prepared.day_types,
                          !.needTemplate = v.prepared.need_template]))

solve_setup(d0) == solve_setup_validated(validate(d0))

(***************************************************************************)
(* solve, after the solver has returned.                                   *)
(***************************************************************************)
\* the triples (d, i, k) in the order of the extraction loops
TripleSeq(d) ==
  LET np == Len(d.people)
      nk == Len(d.shifts)
  IN [n \in 1..(d.days * np * nk) |->
        [date |-> ((n - 1) \div (np * nk)) + 1,
         i |-> (((n - 1) \div nk) % np) + 1,
         k |-> ((n - 1) % nk) + 1]]

extract_assignments(d, x) ==
  LET IsSet(t) == t.k \in x[t.date, t.i]
      sel == SelectSeq(TripleSeq(d), IsSet)
  IN [n \in DOMAIN sel |->
        [date |-> sel[n].date,
         staffId |-> d.people[sel[n].i].id,
         shift |-> d.shifts[sel[n].k].code]]

\* variant: the row of an assignment indexed by date instead of date - 1
build_matrix_shifted(d, assignments) ==
  LET ids == {d.people[n].id : n \in DOMAIN d.people}
      written(day, pid) == {n \in DOMAIN assignments :
                              assignments[n].date + 1 = day /\ assignments[n].staffId = pid}
  IN [day \in 1..d.days |->
        [date |-> day,
         shifts |-> [pid \in ids |->
                       IF written(day, pid) = {} THEN ""
                       ELSE assignments[MaxOf(written(day, pid))].shift]]]

\* the rows of the matrix: "" everywhere, then each assignment written in turn
build_matrix(d, assignments) ==
  LET ids == {d.people[n].id : n \in DOMAIN d.people}
      written(day, pid) == {n \in DOMAIN assignments :
                              assignments[n].date = day /\ assignments[n].staffId = pid}
  IN [day \in 1..d.days |->
        [date |-> day,
         shifts |-> [pid \in ids |->
                       IF written(day, pid) = {} THEN ""
                       ELSE assignments[MaxOf(written(day, pid))].shift]]]

\* variant: peopleOrder read off the assignments instead of the people list
assemble_output_assigned(ctx, partial, diagnostics_flags, solver_warnings) ==
  LET d == ctx.data
      ids == [n \in DOMAIN partial.assignments |-> partial.assignments[n].staffId]
      solver_diagnostics ==
        (IF diagnostics_flags # <<>> THEN [flags |-> diagnostics_flags] ELSE <<>>)
        @@ (IF solver_warnings # <<>> THEN [warnings |-> solver_warnings] ELSE <<>>)
        @@ ctx.solver_diagnostics
  IN [peopleOrder |-> ids,
      matrix |-> build_matrix(d, partial.assignments),
      diagnostics |-> solver_diagnostics @@ Get(partial, "diagnostics", <<>>)]
     @@ partial

\* the tail of solve shared by the solved and the infeasible branch
assemble_output(ctx, partial, diagnostics_flags, solver_warnings) ==
  LET d == ctx.data
      ids == [n \in 1..Len(d.people) |-> d.people[n].id]
      solver_diagnostics ==
        (IF diagnostics_flags # <<>> THEN [flags |-> diagnostics_flags] ELSE <<>>)
        @@ (IF solver_warnings # <<>> THEN [warnings |-> solver_warnings] ELSE <<>>)
        @@ ctx.solver_diagnostics
  IN [peopleOrder |-> ids,
      matrix |-> build_matrix(d, partial.assignments),
      diagnostics |-> solver_diagnostics @@ Get(partial, "diagnostics", <<>>)]
     @@ partial

solved_output(ctx, x) ==
  LET d == ctx.data
      s_values == [e \in DaysOf(d) \X Range(SLOTS) |-> s_value(d, x, e[1], e[2])]
      assignments == extract_assignments(d, x)
      computed == compute_summary(d, assignments, s_values)
      flagged == should_flag_summary_inconsistency(
                   ctx.total_need, Len(assignments), computed.totals.shortage)
      summary ==
        [computed EXCEPT
           !.diagnostics =
             (IF flagged
              THEN [warnings |-> <<"shortage is 0 but assignments do not meet demand">>]
              ELSE <<>>)
             @@ [demand |-> ctx.prepared.diagnostics],
           !.totals = computed.totals
                        @@ [assigned |-> Len(assignments), totalNeed |-> ctx.total_need]]
  IN assemble_output(ctx,
       [assignments |-> assignments, summary |-> summary],
       (IF flagged THEN [inconsistent_summary |-> TRUE] ELSE <<>>)
         @@ ctx.diagnostics_flags,
       ctx.solver_warnings
         \o (IF flagged THEN <<"demand exists but shortage is 0">> ELSE <<>>))

(***************************************************************************)
(* The infeasibility report.                                               *)
(***************************************************************************)
RECURSIVE ConcatUpTo(_, _)
\* parts[1] \o ... \o parts[n]
ConcatUpTo(parts, n) == IF n = 0 THEN <<>> ELSE ConcatUpTo(parts, n - 1) \o parts[n]

unmet_candidates(d) ==
  LET slot_caps == estimate_slot_max_possible(d)
      carry == IF d.days >= 1 THEN carry_count(d.previousMonthNightCarry) ELSE 0
      need(e) ==
        IF e.slot \in Range(DAY_SLOTS)
        THEN d.needTemplate[d.dayTypeByDate[e.date]][e.slot]
        ELSE IF e.slot = "0-7" /\ e.date = 1 THEN Max2(0, 2 - carry)
        ELSE 2
      max_possible(e) == Get(Get(slot_caps, e.date, <<>>), e.slot, 0)
      Unmet(e) == max_possible(e) < need(e)
      sel == SelectSeq(DaySlotSeq(d.days), Unmet)
  IN [n \in DOMAIN sel |->
        [date |-> sel[n].date, slot |-> sel[n].slot,
         need |-> need(sel[n]), maxPossible |-> max_possible(sel[n])]]

\* variant: fixed-off weekdays are counted as available
available_days_unfixed(d, i, week, wish_set, without_wish) ==
  Cardinality({day \in week_days(d, week) :
                 /\ day \notin unavailable_cache(d, i)
                 /\ Range(d.people[i].canWork) # {}
                 /\ (without_wish => day \notin wish_set)})

\* days of a week the person could work; without_wish also drops wish-off days
available_days(d, i, week, wish_set, without_wish) ==
  Cardinality({day \in week_days(d, week) :
                 /\ day \notin unavailable_cache(d, i)
                 /\ [int |-> weekday_of(d.weekdayOfDay1, day)] \notin fixed_off_cache(d, i)
                 /\ Range(d.people[i].canWork) # {}
                 /\ (without_wish => day \notin wish_set)})

person_infeasibility(d, i) ==
  LET p == d.people[i]
      pid == p.id
      weeks == split_weeks(d.days, d.weekdayOfDay1)
      wmin == normalize_limit(Get(p, "weeklyMin", 0))
      wmax == normalize_limit(Get(p, "weeklyMax", 0))
      mmin == normalize_limit(Get(p, "monthlyMin", 0))
      mmax == normalize_limit(Get(p, "monthlyMax", 0))
      wish_set == Get(combined_wish_off_sets(d), pid, {})
      available(w) == available_days(d, i, weeks[w], wish_set, FALSE)
      available_no_wish(w) == available_days(d, i, weeks[w], wish_set, TRUE)
      monthly_available == SumSeq([w \in DOMAIN weeks |-> available(w)])
      monthly_available_no_wish == SumSeq([w \in DOMAIN weeks |-> available_no_wish(w)])
      weekly_shortage(w) ==
        IF wmin # 0 /\ available(w) < wmin
        THEN << [type |-> "weekly_min_shortage", staffId |-> pid,
                 weekStart |-> weeks[w][1], weekEnd |-> weeks[w][2],
                 min |-> wmin, available |-> available(w)] >>
        ELSE <<>>
      weekly_conflict(w) ==
        IF wmin # 0 /\ available_no_wish(w) < wmin
        THEN << [scope |-> "weekly", staffId |-> pid,
                 weekStart |-> weeks[w][1], weekEnd |-> weeks[w][2],
                 min |-> wmin, availableExcludingWishOff |-> available_no_wish(w),
                 missing |-> Max2(0, wmin - available_no_wish(w))] >>
        ELSE <<>>
  IN [weekly |->
        (IF wmax # 0 /\ wmin # 0 /\ wmin > wmax
         THEN << [type |-> "weekly_min_exceeds_max", staffId |-> pid,
                  min |-> wmin, max |-> wmax] >>
         ELSE <<>>)
        \o ConcatUpTo([w \in DOMAIN weeks |-> weekly_shortage(w)], Len(weeks)),
      monthly |->
        (IF mmax # 0 /\ mmin # 0 /\ mmin > mmax
         THEN << [type |-> "monthly_min_exceeds_max", staffId |-> pid,
                  min |-> mmin, max |-> mmax] >>
         ELSE <<>>)
        \o (IF mmin # 0 /\ monthly_available < mmin
            THEN << [type |-> "monthly_min_shortage", staffId |-> pid,
                     min |-> mmin, available |-> monthly_available] >>
            ELSE <<>>),
      wish |->
        ConcatUpTo([w \in DOMAIN weeks |-> weekly_conflict(w)], Len(weeks))
        \o (IF mmin # 0 /\ monthly_available_no_wish < mmin
            THEN << [scope |-> "monthly", staffId |-> pid, min |-> mmin,
                     availableExcludingWishOff |-> monthly_available_no_wish,
                     missing |-> Max2(0, mmin - monthly_available_no_wish)] >>
            ELSE <<>>)]

infeasible_output(ctx) ==
  LET d == ctx.data
      np == Len(d.people)
      per_person == [i \in 1..np |-> person_infeasibility(d, i)]
      weekly_diagnostics == ConcatUpTo([i \in 1..np |-> per_person[i].weekly], np)
      monthly_diagnostics == ConcatUpTo([i \in 1..np |-> per_person[i].monthly], np)
      wish_off_conflict_entries == ConcatUpTo([i \in 1..np |-> per_person[i].wish], np)
      wish_off_conflict_count ==
        SumSeq([n \in DOMAIN wish_off_conflict_entries |->
                  Max2(0, wish_off_conflict_entries[n].missing)])
      summary ==
        [EmptySummary EXCEPT
           !.diagnostics = [weekly |-> weekly_diagnostics,
                            monthly |-> monthly_diagnostics,
                            wishOffConflicts |-> wish_off_conflict_entries,
                            wishOffConflictCount |-> wish_off_conflict_count,
                            demand |-> ctx.prepared.diagnostics]]
  IN assemble_output(ctx,
       [assignments |-> <<>>, infeasible |-> TRUE,
        diagnostics |-> [unmetCandidates |-> unmet_candidates(d)],
        summary |-> summary],
       ctx.diagnostics_flags, ctx.solver_warnings)

(***************************************************************************)
(* The explored inputs.                                                    *)
(***************************************************************************)
\* person ids are strings, pairwise distinct, and not in alphabetical order
StaffIds == <<"s2", "s1", "s3", "s4">>

BasePerson(pid) ==
  [id |-> pid, canWork |-> <<"DA", "NA">>, fixedOffWeekdays |-> <<>>,
   unavailableDates |-> <<>>, weeklyMin |-> 0, weeklyMax |-> 0,
   monthlyMin |-> 0, monthlyMax |-> 0, requestedOffDates |-> <<>>]

\* a person record: the base record with one field changed
PersonChoices(pid) ==
  {BasePerson(pid)}
  \cup {[BasePerson(pid) EXCEPT !.canWork = c] : c \in {<<"DA">>, <<"NA">>}}
  \cup {[BasePerson(pid) EXCEPT !.fixedOffWeekdays = f] :
          f \in {<< [int |-> 0] >>, << [str |-> "Sat"] >>, << [str |-> "u6708"] >>}}
  \cup {[BasePerson(pid) EXCEPT !.unavailableDates = u] : u \in {<<2>>, <<1, 5, 0>>}}
  \cup {[BasePerson(pid) EXCEPT !.weeklyMin = 1], [BasePerson(pid) EXCEPT !.weeklyMax = 1],
        [BasePerson(pid) EXCEPT !.weeklyMax = -1],
        [BasePerson(pid) EXCEPT !.monthlyMin = 2], [BasePerson(pid) EXCEPT !.monthlyMax = 1]}
  \cup {[consecMax |-> L] @@ BasePerson(pid) : L \in {0, 1, 2}}

\* at most MaxVaried of the people differ from the base record
MaxVaried == 1

RECURSIVE VariedPeople(_, _)
\* the lists of np people of which at most budget differ from the base record
VariedPeople(np, budget) ==
  IF np = 0 THEN {<<>>}
  ELSE {Append(prefix, BasePerson(StaffIds[np])) : prefix \in VariedPeople(np - 1, budget)}
       \cup (IF budget = 0 THEN {}
             ELSE {Append(prefix, person) :
                     prefix \in VariedPeople(np - 1, budget - 1),
                     person \in PersonChoices(StaffIds[np]) \ {BasePerson(StaffIds[np])}})

PeopleChoices(np) == VariedPeople(np, MaxVaried)

SlotNeeds(a, b, c, e, m) ==
  ("7-9" :> a) @@ ("9-15" :> b) @@ ("16-18" :> c) @@ ("18-24" :> e) @@ ("0-7" :> m)

NeedTemplateChoices ==
  { [A |-> SlotNeeds(1, 1, 0, 1, 1), B |-> ("7-9" :> -1)],
    [A |-> SlotNeeds(2, 1, 1, 3, 3), B |-> SlotNeeds(0, 1, 0, 1, 1)],
    [A |-> SlotNeeds(0, 1, 0, 0, 0), B |-> SlotNeeds(0, 0, 1, 1, 3)] }

DayTypeChoices(days) ==
  {[n \in 1..days |-> "A"], [n \in 1..days |-> IF n % 2 = 1 THEN "B" ELSE "A"]}

CarryChoices ==
  { [NA |-> <<>>, NB |-> <<>>, NC |-> <<>>], [NA |-> <<"p9">>, NB |-> <<>>] }

RulesChoices ==
  { <<>>, [nightRest |-> [NA |-> 1]],
    [nightRest |-> [NA |-> 2, DA |-> 0], noEarlyAfterDayAB |-> TRUE] }

WeekdayChoices == {0, 6}

Input(days, weekday0, day_types, need_template, people, carry, rules) ==
  [days |-> days, weekdayOfDay1 |-> weekday0, dayTypeByDate |-> day_types,
   needTemplate |-> need_template, people |-> people, shifts |-> SHIFT_CATALOG,
   previousMonthNightCarry |-> carry, rules |-> rules, weights |-> <<>>,
   wishOffs |-> <<>>]

InputsOfSize(days, np) ==
  {Input(days, weekday0, day_types, need_template, people, carry, rules) :
     weekday0 \in WeekdayChoices, day_types \in DayTypeChoices(days),
     need_template \in NeedTemplateChoices, people \in PeopleChoices(np),
     carry \in CarryChoices, rules \in RulesChoices}

SolveInputs ==
  UNION {InputsOfSize(size[1], size[2]) :
           size \in {sz \in (1..MaxDays) \X (0..MaxPeople) : sz[1] * sz[2] <= MaxCells}}

BaseInput ==
  Input(1, 0, <<"A">>, [A |-> SlotNeeds(1, 1, 0, 1, 1)],
        <<BasePerson(StaffIds[1]), BasePerson(StaffIds[2])>>,
        [NA |-> <<>>, NB |-> <<>>, NC |-> <<>>], <<>>)

\* inputs the validators reject or rewrite
RejectedInputs ==
  { [BaseInput EXCEPT !.days = 0],
    [BaseInput EXCEPT !.weekdayOfDay1 = 7],
    [BaseInput EXCEPT !.dayTypeByDate = <<"A", "A">>],
    [BaseInput EXCEPT !.dayTypeByDate = <<"">>],
    [BaseInput EXCEPT !.dayTypeByDate = <<"Z">>],
    [BaseInput EXCEPT !.needTemplate = <<>>],
    [BaseInput EXCEPT !.shifts = <<>>],
    Without(BaseInput, "shifts"),
    [BaseInput EXCEPT !.shifts = << [code |-> "DA", start |-> 8, end |-> 15],
                                    [code |-> "NA", start |-> 16, end |-> 9] >>],
    [BaseInput EXCEPT !.shifts = << [code |-> "DA", start |-> 7, end |-> 15] >>],
    [BaseInput EXCEPT !.shifts = SHIFT_CATALOG
                                   \o << [code |-> "ZZ", start |-> 1, end |-> 2] >>],
    [BaseInput EXCEPT !.people =
       <<BasePerson(StaffIds[1]),
         [BasePerson(StaffIds[2]) EXCEPT !.canWork = <<"DA", "ZZ">>]>>],
    \* inputs that fail two checks
    [BaseInput EXCEPT !.days = 0,
                      !.shifts = << [code |-> "DA", start |-> 8, end |-> 15],
                                    [code |-> "NA", start |-> 16, end |-> 9] >>],
    [BaseInput EXCEPT !.weekdayOfDay1 = 7,
                      !.people = << [BasePerson(StaffIds[1]) EXCEPT !.canWork = <<"ZZ">>] >>],
    [BaseInput EXCEPT !.days = 0, !.needTemplate = <<>>],
    \* nobody to assign, and a day type without a template
    [BaseInput EXCEPT !.people = <<>>, !.dayTypeByDate = <<"Z">>] }

(***************************************************************************)
(* The state machine: one call of solve.                                   *)
(***************************************************************************)
NoSolution == [status |-> "NOT_CALLED"]

NoOutput == [pending |-> TRUE]

Init ==
  /\ data \in SolveInputs \cup RejectedInputs
  /\ sol = NoSolution
  /\ out = NoOutput
  /\ pc = "call"

ReturnEarly(ctx) ==
  /\ ctx.returned
  /\ data' = ctx.data
  /\ out' = ctx.out
  /\ sol' = sol

\* solve returns before the solver runs: a validation error, no availability
SolveReturnsEarly ==
  /\ pc = "call"
  /\ ReturnEarly(solve_setup(data))
  /\ pc' = "returned"

\* the solver reports one of sols; OPTIMAL only for one of least objective
ReturnSolution(ctx, sols, best) ==
  \E x \in sols :
    /\ \E status \in {"FEASIBLE"}
           \cup (IF objective(ctx.data, x) = best THEN {"OPTIMAL"} ELSE {}) :
         sol' = [status |-> status, x |-> x]
    /\ out' = solved_output(ctx, x)

\* p["id"] raises for a person without id, once the solver has returned
lacks_id(d) == \E n \in DOMAIN d.people : "id" \notin DOMAIN d.people[n]

ReturnFound(ctx) ==
  /\ ~ctx.returned /\ ~ctx.raised /\ ~lacks_id(ctx.data)
  /\ ReturnSolution(ctx, solutions(ctx.data),
                    best_objective(ctx.data, solutions(ctx.data)))
  /\ data' = ctx.data

\* the solver ends OPTIMAL or FEASIBLE with an assignment x
SolveFound ==
  /\ pc = "call"
  /\ ReturnFound(solve_setup(data))
  /\ pc' = "returned"

ReturnNotFound(ctx) ==
  /\ ~ctx.returned /\ ~ctx.raised /\ ~lacks_id(ctx.data)
  /\ \E status \in {"UNKNOWN"}
         \cup (IF solutions(ctx.data) = {} THEN {"INFEASIBLE"} ELSE {}) :
       sol' = [status |-> status]
  /\ out' = infeasible_output(ctx)
  /\ data' = ctx.data

\* the solver ends with any other status: no assignment exists, or none was
\* found within the time limit
SolveNotFound ==
  /\ pc = "call"
  /\ ReturnNotFound(solve_setup(data))
  /\ pc' = "returned"

Next == SolveReturnsEarly \/ SolveFound \/ SolveNotFound

Spec == Init /\ [][Next]_vars

(***************************************************************************)
(* Structurally malformed input maps: solve called on a map whose people   *)
(* key is absent or whose people entries are not complete records.         *)
(***************************************************************************)

\* people lists with an entry that is no record, or lacks canWork or id
MalformedPeople ==
  { << [scalar |-> 7] >>,
    << BasePerson(StaffIds[1]), [scalar |-> 7] >>,
    << Without(BasePerson(StaffIds[1]), "canWork") >>,
    << BasePerson(StaffIds[1]), Without(BasePerson(StaffIds[2]), "canWork") >>,
    << Without(BasePerson(StaffIds[1]), "id") >>,
    << BasePerson(StaffIds[1]), Without(BasePerson(StaffIds[2]), "id") >>,
    << Without(BasePerson(StaffIds[1]), "id"), BasePerson(StaffIds[2]) >> }

\* a well-formed environment around the malformed part
MalformedBase ==
  {Input(days, weekday0, <<"A">>, need_template, <<>>, carry, rules) :
     days \in {0, 1}, weekday0 \in WeekdayChoices,
     need_template \in NeedTemplateChoices, carry \in CarryChoices,
     rules \in RulesChoices}

MalformedInputs ==
  {Without(base, "people") : base \in MalformedBase}
  \cup {[base EXCEPT !.people = people] :
          base \in MalformedBase, people \in MalformedPeople}

InitMalformed ==
  /\ data \in MalformedInputs \cup InputsOfSize(1, 1)
  /\ sol = NoSolution
  /\ out = NoOutput
  /\ pc = "call"

\* the exception leaves solve before the solver runs (sol untouched) or
\* after it has returned (any status it may report)
Raises(ctx) ==
  /\ ~ctx.returned
  /\ IF ctx.raised THEN sol' = sol
     ELSE /\ lacks_id(ctx.data)
          /\ \E status \in {"UNKNOWN"}
                 \cup (IF solutions(ctx.data) = {} THEN {"INFEASIBLE"}
                       ELSE {"FEASIBLE", "OPTIMAL"}) :
               sol' = [status |-> status]
  /\ out' = out
  /\ data' = ctx.data

\* solve ends with an uncaught KeyError, TypeError or AttributeError
SolveRaises ==
  /\ pc = "call"
  /\ Raises(solve_setup(data))
  /\ pc' = "raised"

NextMalformed == Next \/ SolveRaises

SpecMalformed == InitMalformed /\ [][NextMalformed]_vars

\* C11: solve never ends with an exception: on every input map, also a
\* structurally malformed one, it returns an output map, and a structural
\* failure is returned as the error envelope.
SolveNeverRaises == pc # "raised"

(***************************************************************************)
(* Vocabulary of the properties: what a caller reads in the returned       *)
(* output, next to the input map the call was made with.                   *)
(***************************************************************************)
\* solve has returned a schedule: no error block and no infeasible flag
Solved ==
  /\ pc = "returned"
  /\ "error" \notin DOMAIN out
  /\ "infeasible" \notin DOMAIN out

\* the entries of out.assignments of person pid on a day
EntriesOf(pid, day) ==
  {n \in DOMAIN out.assignments :
     out.assignments[n].staffId = pid /\ out.assignments[n].date = day}

\* the days of 1..D on which the output assigns person pid
WorkedDays(pid) == {day \in 1..data.days : EntriesOf(pid, day) # {}}

\* a fixedOffWeekdays entry normalized to an index 0=Sun..6=Sat
WeekdayIndex(w) ==
  IF "int" \in DOMAIN w THEN w.int
  ELSE CASE w.str \in {"Sun", "u65E5"} -> 0
         [] w.str \in {"Mon", "u6708"} -> 1
         [] w.str \in {"Tue", "u706B"} -> 2
         [] w.str \in {"Wed", "u6C34"} -> 3
         [] w.str \in {"Thu", "u6728"} -> 4
         [] w.str \in {"Fri", "u91D1"} -> 5
         [] w.str \in {"Sat", "u571F"} -> 6

\* the week window that starts at day a: up to the day before the next
\* Sunday after a, or to day D
WeekWindow(a) ==
  {t \in a..data.days :
     \A u \in (a + 1)..t : (data.weekdayOfDay1 + u - 1) % 7 # 0}

\* the first days of the week windows: day 1 and every later Sunday
WeekStarts ==
  {1} \cup {t \in 2..data.days : (data.weekdayOfDay1 + t - 1) % 7 = 0}

(***************************************************************************)
(* C1..C7: the hard rules, read off the returned assignments.              *)
(***************************************************************************)
\* C1: whenever solve returns a schedule, out.assignments holds at most one
\* entry for each pair (date, staffId).
AtMostOnePerDateAndStaff ==
  Solved =>
    \A m, n \in DOMAIN out.assignments :
      (/\ out.assignments[m].date = out.assignments[n].date
       /\ out.assignments[m].staffId = out.assignments[n].staffId) => m = n

\* two people of the input are both assigned on one day
AtMostOneWitness ==
  /\ Solved
  /\ Len(data.shifts) >= 2
  /\ \E m, n \in DOMAIN out.assignments :
       /\ m # n
       /\ out.assignments[m].date = out.assignments[n].date
       /\ out.assignments[m].staffId # out.assignments[n].staffId

\* C2: in a returned schedule the shift of every assignment is one of the
\* canWork codes of the person the assignment names.
ShiftInCanWork ==
  Solved =>
    \A n \in DOMAIN out.assignments, i \in DOMAIN data.people :
      data.people[i].id = out.assignments[n].staffId
        => out.assignments[n].shift \in Range(data.people[i].canWork)

\* a person who cannot work every shift of the catalog is assigned
ShiftInCanWorkWitness ==
  /\ Solved
  /\ \E n \in DOMAIN out.assignments, i \in DOMAIN data.people :
       /\ data.people[i].id = out.assignments[n].staffId
       /\ Range(data.people[i].canWork) # {data.shifts[k].code : k \in DOMAIN data.shifts}

\* C3: in a returned schedule nobody is assigned on a day whose weekday,
\* (weekdayOfDay1 + d - 1) mod 7, is one of the person's fixedOffWeekdays,
\* given as an index 0..6 or as an accepted weekday name.
NoAssignmentOnFixedOff ==
  Solved =>
    \A i \in DOMAIN data.people, day \in 1..data.days :
      (\E n \in DOMAIN data.people[i].fixedOffWeekdays :
         WeekdayIndex(data.people[i].fixedOffWeekdays[n])
           = (data.weekdayOfDay1 + day - 1) % 7)
        => EntriesOf(data.people[i].id, day) = {}

\* a person with a fixed day off named by a weekday name has that weekday in
\* the month, after day 1, and works on another day
NoAssignmentOnFixedOffWitness ==
  /\ Solved
  /\ \E i \in DOMAIN data.people, day \in 2..data.days :
       /\ \E n \in DOMAIN data.people[i].fixedOffWeekdays :
            /\ "str" \in DOMAIN data.people[i].fixedOffWeekdays[n]
            /\ WeekdayIndex(data.people[i].fixedOffWeekdays[n])
                 = (data.weekdayOfDay1 + day - 1) % 7
       /\ WorkedDays(data.people[i].id) # {}

\* C4: in a returned schedule nobody is assigned on a day listed in the
\* person's unavailableDates.
NoAssignmentOnUnavailableDate ==
  Solved =>
    \A i \in DOMAIN data.people, day \in 1..data.days :
      day \in Range(data.people[i].unavailableDates)
        => EntriesOf(data.people[i].id, day) = {}

\* a person with an unavailable day inside the month works on another day
NoAssignmentOnUnavailableDateWitness ==
  /\ Solved
  /\ \E i \in DOMAIN data.people, day \in 1..data.days :
       /\ day \in Range(data.people[i].unavailableDates)
       /\ WorkedDays(data.people[i].id) # {}

\* C5: in a returned schedule, for every person, the worked days of each week
\* window are at most weeklyMax when weeklyMax > 0 and at least weeklyMin
\* when weeklyMin > 0, and the worked days of 1..D are at most monthlyMax
\* when monthlyMax > 0 and at least monthlyMin when monthlyMin > 0; the week
\* windows partition 1..D, a new one starting at every Sunday after day 1.
WeeklyAndMonthlyBounds ==
  Solved =>
    \A i \in DOMAIN data.people :
      /\ \A a \in WeekStarts :
           /\ data.people[i].weeklyMax > 0 =>
                Cardinality(WorkedDays(data.people[i].id) \cap WeekWindow(a))
                  <= data.people[i].weeklyMax
           /\ data.people[i].weeklyMin > 0 =>
                Cardinality(WorkedDays(data.people[i].id) \cap WeekWindow(a))
                  >= data.people[i].weeklyMin
      /\ data.people[i].monthlyMax > 0 =>
           Cardinality(WorkedDays(data.people[i].id)) <= data.people[i].monthlyMax
      /\ data.people[i].monthlyMin > 0 =>
           Cardinality(WorkedDays(data.people[i].id)) >= data.people[i].monthlyMin

\* a month of two week windows and a person with a weekly minimum who works
\* in both
WeeklyAndMonthlyBoundsWitness ==
  /\ Solved
  /\ Cardinality(WeekStarts) = 2
  /\ \E i \in DOMAIN data.people :
       /\ data.people[i].weeklyMin > 0
       /\ \A a \in WeekStarts :
            WorkedDays(data.people[i].id) \cap WeekWindow(a) # {}

\* C6: in a returned schedule, a person assigned on day d a shift code k with
\* rules.nightRest[k] = r > 0 has no assignment on the days d+1..d+r of 1..D.
RestAfterNightShift ==
  Solved =>
    \A n \in DOMAIN out.assignments :
      LET rest_map == Get(data.rules, "nightRest", <<>>) IN
      (/\ out.assignments[n].shift \in DOMAIN rest_map
       /\ rest_map[out.assignments[n].shift] > 0) =>
        \A t \in 1..rest_map[out.assignments[n].shift] :
          out.assignments[n].date + t <= data.days
            => EntriesOf(out.assignments[n].staffId, out.assignments[n].date + t) = {}

\* somebody works a shift with two days of rest on day 1 of a month of three
RestAfterNightShiftWitness ==
  /\ Solved
  /\ data.days >= 3
  /\ \E n \in DOMAIN out.assignments :
       /\ out.assignments[n].date = 1
       /\ out.assignments[n].shift \in DOMAIN Get(data.rules, "nightRest", <<>>)
       /\ data.rules.nightRest[out.assignments[n].shift] = 2

\* C7: in a returned schedule, a person with consecMax = L > 0 is not
\* assigned on all of L+1 consecutive days of 1..D.
NoRunLongerThanConsecMax ==
  Solved =>
    \A i \in DOMAIN data.people :
      ("consecMax" \in DOMAIN data.people[i] /\ data.people[i].consecMax > 0) =>
        \A start \in 1..(data.days - data.people[i].consecMax) :
          \E t \in start..(start + data.people[i].consecMax) :
            t \notin WorkedDays(data.people[i].id)

\* a person with consecMax = 2 works two days running in a month of three
NoRunLongerThanConsecMaxWitness ==
  /\ Solved
  /\ data.days = 3
  /\ \E i \in DOMAIN data.people :
       /\ "consecMax" \in DOMAIN data.people[i]
       /\ data.people[i].consecMax = 2
       /\ Cardinality(WorkedDays(data.people[i].id)) = 2
       /\ 2 \in WorkedDays(data.people[i].id)

(***************************************************************************)
(* C8..C10: the summary, the matrix and peopleOrder.                       *)
(***************************************************************************)
\* the catalog entry of a shift code of the input
ShiftOf(code) ==
  data.shifts[CHOOSE k \in DOMAIN data.shifts : data.shifts[k].code = code]

\* the people the output assigns on a day to a shift that covers the slot
ActualCoverage(day, slot) ==
  Cardinality({n \in DOMAIN out.assignments :
                 /\ out.assignments[n].date = day
                 /\ slot_contributes(ShiftOf(out.assignments[n].shift), slot)})

\* the lack that out.summary.shortage reports for (day, slot), 0 if none
ReportedLack(day, slot) ==
  LET hits == {n \in DOMAIN out.summary.shortage :
                 /\ out.summary.shortage[n].date = day
                 /\ out.summary.shortage[n].slot = slot}
  IN SetSum([n \in hits |-> out.summary.shortage[n].lack], hits)

\* the need of the day type of a day for a coverage slot
TemplateNeed(day, slot) ==
  LET needs == data.needTemplate[data.dayTypeByDate[day]]
  IN IF slot \in {"18-21", "21-23"} THEN needs["18-24"] ELSE needs[slot]

\* the people carried over from the previous month, counted on "0-7" of day 1
CarriedInto(day, slot) ==
  IF day = 1 /\ slot = "0-7" THEN carry_count(data.previousMonthNightCarry) ELSE 0

\* C8: in a returned schedule, for every day and each of the six coverage
\* slots, the actual coverage (with the day-1 carry on "0-7") plus the lack
\* reported in summary.shortage is at least the template need of the slot
\* ("18-24" for "18-21" and "21-23").
CoveragePlusShortageMeetsNeed ==
  Solved =>
    \A day \in 1..data.days, n \in DOMAIN SUMMARY_SLOTS :
      ActualCoverage(day, SUMMARY_SLOTS[n]) + CarriedInto(day, SUMMARY_SLOTS[n])
        + ReportedLack(day, SUMMARY_SLOTS[n]) >= TemplateNeed(day, SUMMARY_SLOTS[n])

\* C9: in a returned schedule the matrix has the rows 1..D, each row maps
\* every person id to a code or "", and matrix[d-1].shifts[id] = code exactly
\* when {date: d, staffId: id, shift: code} is in assignments.
MatrixMatchesAssignments ==
  Solved =>
    /\ DOMAIN out.matrix = 1..data.days
    /\ \A day \in DOMAIN out.matrix :
         /\ out.matrix[day].date = day
         /\ DOMAIN out.matrix[day].shifts
              = {data.people[i].id : i \in DOMAIN data.people}
         /\ \A pid \in DOMAIN out.matrix[day].shifts :
              /\ \A k \in DOMAIN data.shifts :
                   out.matrix[day].shifts[pid] = data.shifts[k].code
                     <=> \E n \in EntriesOf(pid, day) :
                           out.assignments[n].shift = data.shifts[k].code
              /\ EntriesOf(pid, day) = {} => out.matrix[day].shifts[pid] = ""

\* a schedule of several days with an assignment after day 1 and a person
\* left free on some day
MatrixMatchesAssignmentsWitness ==
  /\ Solved
  /\ data.days >= 2
  /\ \E n \in DOMAIN out.assignments : out.assignments[n].date >= 2
  /\ \E day \in DOMAIN out.matrix :
       \E pid \in DOMAIN out.matrix[day].shifts : out.matrix[day].shifts[pid] = ""

\* C10: whatever solve returns, peopleOrder is the list of the ids of the
\* input people, in input order, each id once.
PeopleOrderListsInputIds ==
  pc = "returned" =>
    /\ Len(out.peopleOrder) = Len(data.people)
    /\ \A n \in DOMAIN data.people : out.peopleOrder[n] = data.people[n].id
    /\ \A n \in DOMAIN data.people :
         Cardinality({m \in DOMAIN out.peopleOrder :
                        out.peopleOrder[m] = data.people[n].id}) = 1

\* an input of two people is rejected with an error block
PeopleOrderListsInputIdsWitness ==
  /\ pc = "returned"
  /\ "error" \in DOMAIN out
  /\ Len(data.people) = 2
  /\ Len(out.peopleOrder) = 2

(***************************************************************************)
(* The contracts of single functions and of whole scenarios: one call of   *)
(* should_flag_summary_inconsistency, of slot_contributes, of the          *)
(* validators (twice in a row), or of solve on a scenario input.           *)
(***************************************************************************)
\* the largest count passed to should_flag_summary_inconsistency
MaxCount == 3

NoCarry == [NA |-> <<>>, NB |-> <<>>, NC |-> <<>>]

\* a month one day longer than the default cap on consecutive work days
SixDays == 6

\* six days for one person whose consecMax is L
UncappedInput(L) ==
  Input(SixDays, 0, [n \in 1..SixDays |-> "A"], [A |-> SlotNeeds(0, 1, 0, 0, 0)],
        << [consecMax |-> L] @@ [BasePerson(StaffIds[1]) EXCEPT !.canWork = <<"DA">>] >>,
        NoCarry, <<>>)

ScenarioInputs ==
  { \* one day, one person who works DA only
    Input(1, 0, <<"A">>, [A |-> SlotNeeds(1, 1, 0, 0, 0)],
          << [BasePerson(StaffIds[2]) EXCEPT !.canWork = <<"DA">>] >>, NoCarry, <<>>),
    \* nobody to assign
    Input(1, 0, <<"A">>, [A |-> SlotNeeds(1, 1, 0, 2, 0)], <<>>, NoCarry, <<>>),
    \* two people for a need of two in the evening and after midnight
    Input(1, 0, <<"A">>, [A |-> SlotNeeds(0, 0, 0, 2, 2)],
          <<BasePerson(StaffIds[1]), BasePerson(StaffIds[2])>>, NoCarry, <<>>),
    \* six days for one person without a consecMax key
    Input(SixDays, 0, [n \in 1..SixDays |-> "A"], [A |-> SlotNeeds(0, 1, 0, 0, 0)],
          << [BasePerson(StaffIds[1]) EXCEPT !.canWork = <<"DA">>] >>, NoCarry, <<>>),
    \* six days for one person whose consecMax is 0 or negative
    UncappedInput(0), UncappedInput(-1),
    \* a Sunday; one of two people lists weekday "0" as fixed off
    Input(1, 0, <<"A">>, [A |-> SlotNeeds(2, 2, 0, 0, 0)],
          << BasePerson(StaffIds[1]),
             [BasePerson(StaffIds[2]) EXCEPT !.fixedOffWeekdays = << [str |-> "0"] >>] >>,
          NoCarry, <<>>),
    \* a Saturday and a Sunday, that is two week windows; both people have a
    \* weekly minimum, one is off on Sundays and asks for day 1 off, the other
    \* has wishOffs on day 2
    [Input(2, 6, <<"A", "A">>, [A |-> SlotNeeds(0, 1, 0, 0, 0)],
           << [BasePerson(StaffIds[1]) EXCEPT !.weeklyMin = 1],
              [BasePerson(StaffIds[2]) EXCEPT !.weeklyMin = 1, !.monthlyMin = 2,
                                              !.fixedOffWeekdays = << [int |-> 0] >>,
                                              !.requestedOffDates = <<1>>] >>,
           NoCarry, <<>>)
       EXCEPT !.wishOffs = [s2 |-> <<2, 2, 5>>]],
    \* minimum limits above the maximum limits
    Input(1, 0, <<"A">>, [A |-> SlotNeeds(0, 1, 0, 0, 0)],
          << [BasePerson(StaffIds[1]) EXCEPT !.weeklyMin = 2, !.weeklyMax = 1,
                                             !.monthlyMin = 2, !.monthlyMax = 1] >>,
          NoCarry, <<>>),
    \* a person with minimum limits and no shift to work
    Input(1, 0, <<"A">>, [A |-> SlotNeeds(0, 1, 0, 0, 0)],
          << BasePerson(StaffIds[1]),
             [BasePerson(StaffIds[2]) EXCEPT !.canWork = <<>>, !.weeklyMin = 1,
                                             !.monthlyMin = 1] >>,
          NoCarry, <<>>) }
  \cup
  \* two alike people, one of whom asks for day 3 off; day 3 needs one person
  { Input(3, 0, <<"B", "B", "A">>,
          [A |-> SlotNeeds(0, 1, 0, 0, 0), B |-> SlotNeeds(0, 0, 0, 0, 0)],
          people, NoCarry, <<>>) :
      people \in { << BasePerson(StaffIds[1]),
                      [BasePerson(StaffIds[2]) EXCEPT !.requestedOffDates = <<3>>] >>,
                   << [BasePerson(StaffIds[1]) EXCEPT !.requestedOffDates = <<3>>],
                      BasePerson(StaffIds[2]) >> } }

InitContracts ==
  /\ sol = NoSolution
  /\ out = NoOutput
  /\ \/ pc = "call" /\ data \in ScenarioInputs
     \/ pc = "call" /\ data = UncappedInput(NonNumeric)
     \/ pc = "flag" /\ data \in [total_need : -1..MaxCount, total_assigned : -1..MaxCount,
                                 shortage_total : -1..MaxCount]
     \/ pc = "slot" /\ data \in [shift : [start : 0..47, end : 0..47],
                                 slot_label : Range(SLOTS)]
     \/ pc = "validate" /\ data \in SolveInputs \cup RejectedInputs

ApplyShouldFlag ==
  /\ pc = "flag"
  /\ out' = should_flag_summary_inconsistency(
              data.total_need, data.total_assigned, data.shortage_total)
  /\ pc' = "flagged"
  /\ UNCHANGED <<data, sol>>

ApplySlotContributes ==
  /\ pc = "slot"
  /\ out' = slot_contributes(data.shift, data.slot_label)
  /\ pc' = "contributes"
  /\ UNCHANGED <<data, sol>>

\* the try block of solve: the validators on the input map
Validate ==
  /\ pc = "validate"
  /\ out' = validate(data)
  /\ pc' = "validated"
  /\ UNCHANGED <<data, sol>>

\* the validators again, on the map the first run has rewritten
Revalidate ==
  /\ pc = "validated"
  /\ out.ok
  /\ sol' = validate([out.data EXCEPT !.days = out.prepared.days,
                                       !.weekdayOfDay1 = out.prepared.weekday0,
                                       !.dayTypeByDate = out.prepared.day_types,
                                       !.needTemplate = out.prepared.need_template])
  /\ pc' = "revalidated"
  /\ UNCHANGED <<data, out>>

NextContracts ==
  Next \/ ApplyShouldFlag \/ ApplySlotContributes \/ Validate \/ Revalidate

SpecContracts == InitContracts /\ [][NextContracts]_vars

(***************************************************************************)
(* Claims about the early returns.                                         *)
(***************************************************************************)
\* C12: when the total need is positive and the availability capacity is 0
\* for every (day, slot), solve returns error.code = "no_availability", no
\* assignments, and under diagnostics.availability the map that gives, for
\* every day (as a string) and each of the six slots, the capacity 0.
NoAvailabilityIsReported ==
  (/\ pc = "returned"
   /\ validate(data).ok
   /\ validate(data).prepared.diagnostics.totalNeed > 0
   /\ \A day \in 1..data.days : \A slot \in Range(SUMMARY_SLOTS) :
        compute_slot_availability(data)[day][slot] = 0) =>
    /\ "error" \in DOMAIN out
    /\ out.error.code = "no_availability"
    /\ out.assignments = <<>>
    /\ DOMAIN out.diagnostics.availability = {StrOfInt(day) : day \in 1..data.days}
    /\ \A key \in DOMAIN out.diagnostics.availability :
         /\ DOMAIN out.diagnostics.availability[key] = Range(SUMMARY_SLOTS)
         /\ \A slot \in Range(SUMMARY_SLOTS) :
              out.diagnostics.availability[key][slot] = 0

\* a need that nobody can serve although the people list is not empty
NoAvailabilityIsReportedWitness ==
  /\ pc = "returned"
  /\ "error" \in DOMAIN out
  /\ out.error.code = "no_availability"
  /\ Len(data.people) >= 1

(***************************************************************************)
(* Claims about single functions and scenarios.                            *)
(***************************************************************************)
\* C13: should_flag_summary_inconsistency(totalNeed, assigned, shortage) is
\* true exactly when totalNeed > 0, assigned < totalNeed and shortage = 0;
\* and a schedule returned by solve carries diagnostics.flags.inconsistent_summary
\* exactly when this holds for its summary totals.
InconsistentSummaryFlaggedExactly ==
  /\ pc = "flagged" =>
       (out <=> /\ data.total_need > 0
                /\ data.total_assigned < data.total_need
                /\ data.shortage_total = 0)
  /\ Solved =>
       ((/\ "flags" \in DOMAIN out.diagnostics
         /\ "inconsistent_summary" \in DOMAIN out.diagnostics.flags
         /\ out.diagnostics.flags.inconsistent_summary)
        <=> (/\ out.summary.totals.totalNeed > 0
             /\ out.summary.totals.assigned < out.summary.totals.totalNeed
             /\ out.summary.totals.shortage = 0))

\* a returned schedule that is flagged: two assignments for a need of four
InconsistentSummaryFlaggedWitness ==
  /\ Solved
  /\ "flags" \in DOMAIN out.diagnostics
  /\ "inconsistent_summary" \in DOMAIN out.diagnostics.flags
  /\ out.summary.totals.assigned = 2

\* C14 as stated: for a shift with integer start and end in [0,48) and each of
\* the six slots, slot_contributes is true exactly when the half-open intervals
\* [start, end') and [a, b) share an hour, where end' = end + 24 when
\* end <= start and end' = end otherwise, and (a, b) = (24, 31) for "0-7"
\* and the literal hours of the label for the other slots.
SlotContributesIsOverlap ==
  pc = "contributes" =>
    (out <=> \E h \in 0..72 :
               /\ data.shift.start <= h
               /\ h < (IF data.shift.end <= data.shift.start
                       THEN data.shift.end + 24 ELSE data.shift.end)
               /\ (IF data.slot_label = "0-7" THEN 24
                   ELSE SlotHours(data.slot_label)[1]) <= h
               /\ h < (IF data.slot_label = "0-7" THEN 31
                       ELSE SlotHours(data.slot_label)[2]))

\* C14, amended: the same equality for every shift whose canonical interval
\* [start, end') is not empty, that is start < end' (every shift that starts
\* before hour 24 or ends less than 24 hours before it starts).
SlotContributesIsOverlapOfProperShift ==
  (/\ pc = "contributes"
   /\ data.shift.start < (IF data.shift.end <= data.shift.start
                          THEN data.shift.end + 24 ELSE data.shift.end)) =>
    (out <=> \E h \in 0..72 :
               /\ data.shift.start <= h
               /\ h < (IF data.shift.end <= data.shift.start
                       THEN data.shift.end + 24 ELSE data.shift.end)
               /\ (IF data.slot_label = "0-7" THEN 24
                   ELSE SlotHours(data.slot_label)[1]) <= h
               /\ h < (IF data.slot_label = "0-7" THEN 31
                       ELSE SlotHours(data.slot_label)[2]))

\* a shift that crosses midnight and covers the slot after midnight
SlotContributesIsOverlapWitness ==
  /\ pc = "contributes"
  /\ data.shift.end <= data.shift.start
  /\ data.shift.start < 24
  /\ data.slot_label = "0-7"
  /\ out

EarliestFailingStepIsReported ==
  pc = "returned" =>
    /\ ~(data.days > 0) =>
         "error" \in DOMAIN out /\ out.error.code = "invalid_days"
    /\ (data.days > 0 /\ data.weekdayOfDay1 \notin 0..6) =>
         "error" \in DOMAIN out /\ out.error.code = "invalid_weekday_of_day1"

TrivialScenarioIsMet ==
  (/\ Solved
   /\ sol.status = "OPTIMAL"
   /\ data.days = 1
   /\ data.needTemplate[data.dayTypeByDate[1]] = SlotNeeds(1, 1, 0, 0, 0)
   /\ Len(data.people) = 1
   /\ data.people[1].canWork = <<"DA">>) =>
    /\ out.assignments =
         << [date |-> 1, staffId |-> data.people[1].id, shift |-> "DA"] >>
    /\ out.summary.totals.shortage = 0

\* C19: for a one-day input whose previous-month carry count is at least the
\* template need of "0-7" on day 1, the solver does not find the problem
\* infeasible (people without minimum limits), every returned schedule has
\* coverage 0 on "0-7" of day 1, and its summary reports no shortage for
\* "0-7" on day 1.
NightCarryCoversMidnight ==
  (/\ pc = "returned"
   /\ sol.status # "NOT_CALLED"
   /\ data.days = 1
   /\ CarriedInto(1, "0-7") >= TemplateNeed(1, "0-7")) =>
    /\ (\A n \in DOMAIN data.people :
          data.people[n].weeklyMin = 0 /\ data.people[n].monthlyMin = 0) =>
         sol.status # "INFEASIBLE"
    /\ Solved => ActualCoverage(1, "0-7") = 0 /\ ReportedLack(1, "0-7") = 0

\* C20: with two people of identical capabilities and limits, one of whom
\* has requestedOffDates = [3] (weight 20), and a need of 1 on day 3, every
\* schedule returned from an optimal solution assigns the other person on
\* day 3 and does not assign the requesting person that day.
WishOffGoesToTheOther ==
  (Solved /\ sol.status = "OPTIMAL" /\ data.days = 3) =>
    \A n \in DOMAIN data.people :
      IF data.people[n].requestedOffDates = <<3>>
      THEN EntriesOf(data.people[n].id, 3) = {}
      ELSE EntriesOf(data.people[n].id, 3) # {}

\* an optimal schedule of the scenario in which the requesting person works
\* on another day
WishOffGoesToTheOtherWitness ==
  /\ Solved
  /\ sol.status = "OPTIMAL"
  /\ data.days = 3
  /\ \E n \in DOMAIN data.people :
       /\ data.people[n].requestedOffDates = <<3>>
       /\ WorkedDays(data.people[n].id) # {}

InfeasibleBranchReturns ==
  /\ sol.status \in {"UNKNOWN", "INFEASIBLE"} =>
       /\ pc = "returned"
       /\ "infeasible" \in DOMAIN out /\ out.infeasible
       /\ out.assignments = <<>>
       /\ DOMAIN out.matrix = 1..data.days
       /\ \A day \in DOMAIN out.matrix :
            \A pid \in DOMAIN out.matrix[day].shifts :
              out.matrix[day].shifts[pid] = ""
       /\ {"weekly", "monthly", "wishOffConflicts"}
            \subseteq DOMAIN out.summary.diagnostics
       /\ "unmetCandidates" \in DOMAIN out.diagnostics
  /\ pc = "returned" =>
       ~("infeasible" \in DOMAIN out /\ "error" \in DOMAIN out)

CoverageWithinAvailability ==
  Solved =>
    \A day \in 1..data.days, n \in DOMAIN SUMMARY_SLOTS :
      ActualCoverage(day, SUMMARY_SLOTS[n])
        <= out.diagnostics.availability[StrOfInt(day)][SUMMARY_SLOTS[n]]

(***************************************************************************)
(* Claims about the infeasibility report.                                  *)
(***************************************************************************)
\* C25: in an infeasible output, diagnostics.unmetCandidates holds an entry
\* {date, slot, need, maxPossible} for exactly the (day, slot) whose template
\* need (the day-1 carry subtracted for "0-7") exceeds maxPossible, the
\* availability capacity of the day and the slot.
UnmetCandidatesAreNeedsAboveCapacity ==
  (pc = "returned" /\ "infeasible" \in DOMAIN out) =>
    Range(out.diagnostics.unmetCandidates) =
      { [date |-> e[1], slot |-> e[2],
         need |-> Max2(0, TemplateNeed(e[1], e[2]) - CarriedInto(e[1], e[2])),
         maxPossible |-> out.diagnostics.availability[StrOfInt(e[1])][e[2]]] :
          e \in { c \in (1..data.days) \X Range(SUMMARY_SLOTS) :
                    Max2(0, TemplateNeed(c[1], c[2]) - CarriedInto(c[1], c[2]))
                      > out.diagnostics.availability[StrOfInt(c[1])][c[2]] } }

\* the days of 1..D that are neither fixed-off nor unavailable for person i
FreeDays(i) ==
  {day \in 1..data.days :
     /\ \A n \in DOMAIN data.people[i].unavailableDates :
          data.people[i].unavailableDates[n] # day
     /\ \A n \in DOMAIN data.people[i].fixedOffWeekdays :
          \/ /\ "str" \in DOMAIN data.people[i].fixedOffWeekdays[n]
             /\ data.people[i].fixedOffWeekdays[n].str \notin DOMAIN fixed_map
          \/ WeekdayIndex(data.people[i].fixedOffWeekdays[n])
               # (data.weekdayOfDay1 + day - 1) % 7}

\* the weekly and monthly diagnostics of an infeasible output list the
\* shortages and the min-above-max limits of every person, free[i] being the
\* days person i can work
MinShortagesFor(free) ==
  \A i \in DOMAIN data.people :
    /\ \A a \in WeekStarts :
         (\E n \in DOMAIN out.summary.diagnostics.weekly :
            /\ out.summary.diagnostics.weekly[n].type = "weekly_min_shortage"
            /\ out.summary.diagnostics.weekly[n].staffId = data.people[i].id
            /\ out.summary.diagnostics.weekly[n].weekStart = a)
         <=> /\ data.people[i].weeklyMin > 0
             /\ data.people[i].weeklyMin > Cardinality(free[i] \cap WeekWindow(a))
    /\ (\E n \in DOMAIN out.summary.diagnostics.monthly :
          /\ out.summary.diagnostics.monthly[n].type = "monthly_min_shortage"
          /\ out.summary.diagnostics.monthly[n].staffId = data.people[i].id)
       <=> data.people[i].monthlyMin > Cardinality(free[i])
    /\ (\E n \in DOMAIN out.summary.diagnostics.weekly :
          /\ out.summary.diagnostics.weekly[n].type = "weekly_min_exceeds_max"
          /\ out.summary.diagnostics.weekly[n].staffId = data.people[i].id)
       <=> /\ data.people[i].weeklyMin > 0 /\ data.people[i].weeklyMax > 0
           /\ data.people[i].weeklyMin > data.people[i].weeklyMax
    /\ (\E n \in DOMAIN out.summary.diagnostics.monthly :
          /\ out.summary.diagnostics.monthly[n].type = "monthly_min_exceeds_max"
          /\ out.summary.diagnostics.monthly[n].staffId = data.people[i].id)
       <=> /\ data.people[i].monthlyMin > 0 /\ data.people[i].monthlyMax > 0
           /\ data.people[i].monthlyMin > data.people[i].monthlyMax

\* C26 as stated: in an infeasible output, for every person and week window,
\* summary.diagnostics.weekly holds a weekly_min_shortage entry exactly when
\* weeklyMin > 0 exceeds the number of days of the window that are neither
\* fixed-off nor unavailable for the person; summary.diagnostics.monthly holds
\* a monthly_min_shortage entry exactly when monthlyMin exceeds that number
\* over 1..D; weekly_min_exceeds_max and monthly_min_exceeds_max are recorded
\* exactly when both limits are > 0 and min > max.
MinShortagesAreReported ==
  (pc = "returned" /\ "infeasible" \in DOMAIN out) =>
    MinShortagesFor([i \in DOMAIN data.people |-> FreeDays(i)])

\* C26, amended: the same, with the number of days counted as 0 for a person
\* whose canWork is empty.
MinShortagesAreReportedOfWorkers ==
  (pc = "returned" /\ "infeasible" \in DOMAIN out) =>
    MinShortagesFor([i \in DOMAIN data.people |->
                       IF data.people[i].canWork = <<>> THEN {} ELSE FreeDays(i)])

\* an infeasible output with a weekly shortage in the second of two windows,
\* caused by a fixed-off Sunday, and a monthly shortage
MinShortagesAreReportedWitness ==
  /\ pc = "returned"
  /\ "infeasible" \in DOMAIN out
  /\ \E n \in DOMAIN out.summary.diagnostics.weekly :
       /\ out.summary.diagnostics.weekly[n].type = "weekly_min_shortage"
       /\ out.summary.diagnostics.weekly[n].weekStart = 2
  /\ \E n \in DOMAIN out.summary.diagnostics.monthly :
       out.summary.diagnostics.monthly[n].type = "monthly_min_shortage"

\* the days person i asked to have off: wishOffs of the id united with
\* requestedOffDates, within 1..data.days
WishDays(i) ==
  (Range(Get(data.wishOffs, data.people[i].id, <<>>))
     \cup Range(data.people[i].requestedOffDates)) \cap (1..data.days)

\* the days person i can work: none when canWork is empty
WorkableDays(i) ==
  IF data.people[i].canWork = <<>> THEN {} ELSE FreeDays(i)

HonoredOffViolations ==
  {n \in DOMAIN out.assignments :
     \E i \in DOMAIN data.people :
       /\ data.people[i].id = out.assignments[n].staffId
       /\ out.assignments[n].date \in WishDays(i)}

InputErrorCodes ==
  {"shift_definition_mismatch", "unknown_shift_code", "invalid_days",
   "invalid_weekday_of_day1", "invalid_day_type_length", "invalid_day_type_value",
   "invalid_need_template", "invalid_need_template_key", "unknown_day_type"}

\* C29: solve never returns the error code no_assignment_variables: whenever
\* no variable x[d,i,k] would be created (days >= 1 and the catalog is not
\* empty, hence people is empty) an earlier check has returned an error, which
\* for an input that passes validation is total_need_zero or no_availability.
NoAssignmentVariablesIsUnreachable ==
  pc = "returned" =>
    /\ "error" \in DOMAIN out => out.error.code # "no_assignment_variables"
    /\ (data.days >= 1 /\ data.people = <<>>) =>
         /\ "error" \in DOMAIN out
         /\ out.error.code \in {"total_need_zero", "no_availability"} \cup InputErrorCodes

\* nobody to assign and a positive need: no_availability is returned
NoAssignmentVariablesIsUnreachableWitness ==
  /\ pc = "returned" /\ data.days >= 1 /\ data.people = <<>>
  /\ "error" \in DOMAIN out /\ out.error.code = "no_availability"

\* C30: in every solved output a person whose record has no consecMax key has
\* no run of 6 consecutive worked days (default cap 5); a person whose
\* consecMax is 0, negative or not a number has no cap on consecutive work.
DefaultConsecCapHolds ==
  Solved =>
    \A i \in DOMAIN data.people :
      "consecMax" \notin DOMAIN data.people[i] =>
        \A start \in 1..(data.days - 5) :
          \E t \in start..(start + 5) : t \notin WorkedDays(data.people[i].id)

\* a person whose consecMax is not a number works six days running
DefaultConsecCapHoldsWitness ==
  /\ Solved
  /\ \E i \in DOMAIN data.people :
       /\ "consecMax" \in DOMAIN data.people[i]
       /\ ToString(data.people[i].consecMax) = ToString(NonNumeric)
       /\ 1..SixDays \subseteq WorkedDays(data.people[i].id)

================================================================
